---- MODULE Spec2Model ----
(***************************************************************************)
(* Resource (src/unnamed/part_001): the build / measure / layout state     *)
(* machine of one AMP element, with the element, the Resources manager and *)
(* the viewport as environment.  Promises are modelled by their identity   *)
(* and by the steps that settle them.                                      *)
(***************************************************************************)
EXTENDS Integers, FiniteSets, Sequences, TLC

\* ---------------------------------------------------------------- bounds
MaxInFlight == 2      \* layoutCallback promises pending at once
MaxLayoutCount == 2   \* cap of layoutCount_
MaxBuilds == 2        \* element.build() promises pending at once
MaxHandlers == 3      \* handlers a LazyObservable holds at once
MaxInstalls == 3      \* times a LazyObservable installs its listener
MaxListeners == 2     \* onSessionEnd callbacks of a session manager
MaxBegins == 2        \* beginSession() calls counted per session
MaxEvents == 2        \* PAUSE and PLAYING events dispatched and not yet handled
MaxTasks == 1         \* vsync tasks, and promise callbacks, pending at once
MaxClosures == 2      \* installations of one behavior of a video entry
MaxCalls == 2         \* calls of one uninstall closure
MaxVsync == 2         \* updateVisibility() calls queued before vsync runs
MaxEntries == 2       \* videos registered with one video manager
MaxMask == 3          \* the greatest mask given to remaskBehaviors
MaxIntersections == 3 \* entries of one call of the intersection observer
MaxValueLen == 1      \* characters of a string given to safe() or interpolated by html
MaxRenders == 2       \* calls of safe() and html that share the caches

\* ------------------------------------------------------- ResourceState
NOT_BUILT == 0
NOT_LAID_OUT == 1
READY_FOR_LAYOUT == 2
LAYOUT_SCHEDULED == 3
LAYOUT_COMPLETE == 4
LAYOUT_FAILED == 5

ResourceState == NOT_BUILT..LAYOUT_FAILED

\* -------------------------------------------------------------- values
\* Reasons a layoutCallback() promise rejects with, the reason element.build()
\* rejects with and the error layoutCallback() throws.
Reasons == {"e1", "e2"}
BuildReasons == {"b1"}
ThrowReasons == {"t1"}
NullBox == [left |-> 0, top |-> 0, width |-> -1, height |-> -1]

layoutRectLtwh(l, t, w, h) == [left |-> l, top |-> t, width |-> w, height |-> h]

\* The right and bottom fields layoutRectLtwh computes.
rectRight(rect) == rect.left + rect.width
rectBottom(rect) == rect.top + rect.height

moveLayoutRect(rect, dx, dy) ==
  IF (dx = 0 /\ dy = 0) \/ (rect.width = 0 /\ rect.height = 0)
    THEN rect
    ELSE layoutRectLtwh(rect.left + dx, rect.top + dy, rect.width, rect.height)

\* What viewport.getLayoutRect(element) can answer: a collapsed box, a box, and
\* the same box moved to the right.
MeasuredBoxes ==
  { layoutRectLtwh(0, 1, 0, 0), layoutRectLtwh(0, 0, 1, 1), layoutRectLtwh(1, 0, 1, 1) }

\* Before withinViewportMultiplier was asked anything.
NotAsked ==
  [ asked |-> FALSE, result |-> FALSE,
    multiplier |-> [isBoolean |-> TRUE, flag |-> FALSE, quarters |-> 0] ]

\* What a promise handed to a caller is.
RetNone == [kind |-> "none", id |-> 0, reason |-> "none"]
RetNull == [kind |-> "null", id |-> 0, reason |-> "none"]
RetResolved == [kind |-> "resolved", id |-> 0, reason |-> "none"]
RetRejected(r) == [kind |-> "rejected", id |-> 0, reason |-> r]
RetPending(p) == [kind |-> "pending", id |-> p, reason |-> "none"]
RetAssert == [kind |-> "assert", id |-> 0, reason |-> "none"]

VARIABLES
  state_,             \* this.state_
  isBuilding_,        \* this.isBuilding_
  layoutCount_,       \* this.layoutCount_
  lastLayoutError_,   \* this.lastLayoutError_: "null", "undefined" or a reason
  isFixed_,           \* this.isFixed_
  layoutBox_,         \* this.layoutBox_
  initialLayoutBox_,  \* this.initialLayoutBox_ (NullBox for null)
  layoutPromise_,     \* this.layoutPromise_: 0 for null, else the promise's id
  loadedOnce_,        \* this.loadedOnce_
  loadPromiseResolve_,\* this.loadPromiseResolve_ is not null
  element,            \* the element: what its methods answer
  elementBuilds,      \* element.build() promises not yet settled
  inflight,           \* layoutCallback() promises not yet settled
  loadPromise,        \* how many times loadPromise_ was resolved
  completed,          \* how the latest layoutComplete_ ended: "none", "success" or the reason
  laidOut,            \* a layout started since the latest reset succeeded, none failed since
  last,               \* the latest operation: its name and outcome
  viewport,           \* viewport.getRect(): left and top are the scroll offsets
  scrollDirection,    \* resources_.getScrollDirection(): 1 down, -1 up
  within,             \* the latest answer of withinViewportMultiplier, with its argument
  handlers_,          \* LazyObservable: observable_.handlers_
  installListenerOnce_, \* LazyObservable: installListenerOnce_ has run
  uninstallListener_, \* LazyObservable: 0 for null, else the installation it undoes
  handles,            \* the handlers whose unsubscribe handle observe() returned
  installerCalls,     \* how many times installListenerFn_ was invoked
  uninstallerCalls,   \* how many times the uninstaller of each installation was invoked
  lazyLast,           \* the latest LazyObservable operation and whether it threw
  sessionManagers,    \* the two VideoSessionManager objects of a video entry
  sessionLast,        \* the latest call made on a session manager by its user
  entry,              \* the VideoEntry of one video, its player and its pending work
  entryLast,          \* the latest step of the entry and what it did
  manager,            \* the video manager: its entries_ and its timer
  managerLast,        \* the latest call of the manager and what it did
  safeHtml            \* the safe-html module: its caches and its latest rendering

resourceVars ==
  << state_, isBuilding_, layoutCount_, lastLayoutError_, isFixed_, layoutBox_,
     initialLayoutBox_, layoutPromise_, loadedOnce_, loadPromiseResolve_ >>

vars ==
  << state_, isBuilding_, layoutCount_, lastLayoutError_, isFixed_, layoutBox_,
     initialLayoutBox_, layoutPromise_, loadedOnce_, loadPromiseResolve_,
     element, elementBuilds, inflight, loadPromise, completed, laidOut, last,
     viewport, scrollDirection, within,
     handlers_, installListenerOnce_, uninstallListener_, handles,
     installerCalls, uninstallerCalls, lazyLast,
     sessionManagers, sessionLast, entry, entryLast,
     manager, managerLast, safeHtml >>

\* The fields of a LazyObservable, and what is recorded of its use.
lazyVars ==
  << handlers_, installListenerOnce_, uninstallListener_, handles,
     installerCalls, uninstallerCalls, lazyLast >>

\* The objects other than the Resource and its viewport.
otherVars ==
  << lazyVars, sessionManagers, sessionLast, entry, entryLast,
     manager, managerLast, safeHtml >>

\* The video manager and the safe-html module.
moreVars == << manager, managerLast, safeHtml >>

\* What the operations of the life cycle leave alone.
viewVars == << viewport, scrollDirection, within, otherVars >>

\* The Resource, its element and its viewport.
resourceAndViewVars ==
  << state_, isBuilding_, layoutCount_, lastLayoutError_, isFixed_, layoutBox_,
     initialLayoutBox_, layoutPromise_, loadedOnce_, loadPromiseResolve_,
     element, elementBuilds, inflight, loadPromise, completed, laidOut, last,
     viewport, scrollDirection, within >>

\* new LazyObservable(installListenerFn)
LazyObservableNew ==
  /\ handlers_ = << >>
  /\ installListenerOnce_ = FALSE
  /\ uninstallListener_ = 0
  /\ handles = {}
  /\ installerCalls = 0
  /\ uninstallerCalls = [i \in 1..MaxInstalls |-> 0]
  /\ lazyLast = [op |-> "new", threw |-> FALSE]

\* The two session managers a video entry holds.
SessionManagerIds == {"actionSessionManager_", "visibilitySessionManager_"}

\* new VideoSessionManager(): not active, no callback.  begun counts the
\* beginSession() calls since the session became active, up to MaxBegins.
VideoSessionManagerNew == [isSessionActive_ |-> FALSE, listeners |-> 0, begun |-> 0]

NoInvocation == [i \in 1..MaxListeners |-> 0]

SessionManagersNew ==
  /\ sessionManagers = [w \in SessionManagerIds |-> VideoSessionManagerNew]
  /\ sessionLast = [which |-> "none", op |-> "new", begun |-> 0,
                    invoked |-> NoInvocation]

\* unlisteners_ holds the listeners of the entry itself on the element, by the
\* event each listens to.
\* No video is registered.  impl is the video manager installed as
\* 'video-manager': "V1" (video-manager-impl.js) or "V2" (part_000).  Of the
\* fields, playCalledByAutoplay_, pauseCalledByAutoplay_ and
\* userInteractedWithAutoPlay_ are fields of the V1 entry; for V2 they record
\* what its Autoplay behavior did.  playerPlaying is the state of the player;
\* events, vsync, visibilityChanged and autoplayTasks are the PAUSE and PLAYING
\* events dispatched, the vsync tasks scheduled and the promise callbacks
\* waiting to run.
\* The behaviors of a V2 entry, and an empty slot of uninstallers_.  A closure
\* stored in a slot is the number of the installation it undoes.
VideoBehaviorId == {"AUTOPLAY", "ANALYTICS"}
NoUninstaller == 0

NoVideoEntry ==
  [ impl |-> "none", hasAutoplay |-> FALSE, supportsAutoplay |-> FALSE,
    loaded_ |-> FALSE, isPlaying_ |-> FALSE, isVisible_ |-> FALSE,
    allowAutoplay_ |-> TRUE, userInteractedWithAutoPlay_ |-> FALSE,
    playCalledByAutoplay_ |-> FALSE, pauseCalledByAutoplay_ |-> FALSE,
    playerPlaying |-> FALSE, events |-> << >>, vsync |-> << >>,
    visibilityChanged |-> 0, autoplayTasks |-> << >>,
    uninstallers_ |-> [b \in VideoBehaviorId |-> NoUninstaller],
    closures |-> [b \in VideoBehaviorId |-> 0],
    installations |-> [b \in VideoBehaviorId |-> {}],
    called |-> [b \in VideoBehaviorId |-> [c \in 1..MaxClosures |-> 0]],
    installed |-> {}, installed_ |-> [defined |-> FALSE, mask |-> {}],
    isInteractive |-> FALSE, controls |-> "shown", built |-> "none",
    behaviorsAttr |-> [ set |-> FALSE, value |-> << >>, mask |-> 0 ],
    injected |-> [b \in VideoBehaviorId |-> {}],
    unlisteners_ |-> {} ]

\* op: the step; ret: what getPlayingState() returned, the ratio a measure
\* read, the behavior a step installed or uninstalled, or the mask of a remask;
\* pauseHandled: who caused
\* the PAUSE event the step handled ("none" if it handled none); ended: the
\* session managers whose onSessionEnd callbacks the step invoked; calls: the
\* methods of the video, play(true) and pause(), the manager called in the step.
EntryLast(op, ret, pauseHandled, ended, calls) ==
  [ op |-> op, ret |-> ret, pauseHandled |-> pauseHandled, ended |-> ended,
    calls |-> calls ]

VideoEntryNone ==
  /\ entry = NoVideoEntry
  /\ entryLast = EntryLast("none", "none", "none", {}, {})

\* The elements of the document that carry a video.
VideoElements == {"video1", "video2"}

\* No video manager is constructed yet.  entries_: the elements of the
\* registered videos, each with what getPlayingState() answers; timers: the
\* pending delays of the seconds-playing timer; props: the property
\* __AMP_VIDEO_ENTRY__ of each element, where the V2 manager keeps the entry:
\* "absent" (not a property of the element), "entry" or "null".
NoManager ==
  [ impl |-> "none", entriesNull |-> TRUE, entries_ |-> << >>, timers |-> 0,
    props |-> [el \in VideoElements |-> "absent"] ]

\* op: the call; element: its argument; threw: the error it threw ("none" if
\* none); ret: what it returned; triggered: the elements a video-seconds-played
\* event was triggered for.
ManagerLast(op, el, threw, ret, triggered) ==
  [ op |-> op, element |-> el, threw |-> threw, ret |-> ret, triggered |-> triggered ]

ManagerNone ==
  /\ manager = NoManager
  /\ managerLast = ManagerLast("none", "none", "none", "none", {})

\* Nothing has been rendered.
NoSafe ==
  [ impl |-> "none", op |-> "none", input |-> << >>, output |-> << >>,
    threw |-> "none", safeCache |-> {}, escapeCache |-> {}, calls |-> 0 ]

\* The objects other than the Resource, as constructed.
OthersNew ==
  /\ LazyObservableNew /\ SessionManagersNew /\ VideoEntryNone
  /\ ManagerNone /\ safeHtml = NoSafe

\* ------------------------------------------------------------- element
\* The answers of the element that do not change while the resource lives,
\* and those that do (isUpgraded, isBuilt).
Elements ==
  [ isFluid : BOOLEAN, isRelayoutNeeded : BOOLEAN,
    isUpgraded : BOOLEAN, isBuilt : BOOLEAN ]

\* op: the operation; ret: what it returned, or how its promise settled;
\* layoutCallback: whether it invoked element.layoutCallback().
Last(op, ret, cb) == [ op |-> op, ret |-> ret, layoutCallback |-> cb ]

\* ----------------------------------------------------------- constructor
Init ==
  /\ element \in { e \in Elements : e.isBuilt => e.isUpgraded }
  /\ state_ = IF element.isBuilt THEN NOT_LAID_OUT ELSE NOT_BUILT
  /\ isBuilding_ = FALSE
  /\ layoutCount_ = 0
  /\ lastLayoutError_ = "null"
  /\ isFixed_ = FALSE
  /\ layoutBox_ = layoutRectLtwh(-10000, -10000, 0, 0)
  /\ initialLayoutBox_ = NullBox
  /\ layoutPromise_ = 0
  /\ loadedOnce_ = FALSE
  /\ loadPromiseResolve_ = TRUE
  /\ elementBuilds = 0
  /\ inflight = {}
  /\ loadPromise = 0
  /\ completed = "none"
  /\ laidOut = FALSE
  /\ last = Last("new", RetNone, FALSE)
  /\ viewport = layoutRectLtwh(0, 0, 1, 1)
  /\ scrollDirection = 1
  /\ within = NotAsked
  /\ OthersNew

\* ------------------------------------------------------------- queries
hasBeenMeasured == initialLayoutBox_ # NullBox

isDisplayedWith(box) ==
  (element.isFluid \/ (box.height > 0 /\ box.width > 0))

isDisplayed == isDisplayedWith(layoutBox_)

isLayoutPending == state_ # LAYOUT_COMPLETE /\ state_ # LAYOUT_FAILED

\* ---------------------------------------------------------------- build
\* Mutant: build() forgets that a build is already in progress.
buildDenied_ignoresBuilding(grant) == ~element.isUpgraded \/ ~grant

buildDenied(grant) == isBuilding_ \/ ~element.isUpgraded \/ ~grant

Build(grant) ==
  IF buildDenied(grant)
    THEN /\ last' = Last("build", RetNull, FALSE)
         /\ UNCHANGED << resourceVars, element, elementBuilds, inflight,
                         loadPromise, completed, laidOut, viewVars >>
    ELSE /\ elementBuilds < MaxBuilds
         /\ isBuilding_' = TRUE
         /\ elementBuilds' = elementBuilds + 1
         /\ last' = Last("build", RetPending(0), FALSE)
         /\ UNCHANGED << state_, layoutCount_, lastLayoutError_, isFixed_,
                         layoutBox_, initialLayoutBox_, layoutPromise_,
                         loadedOnce_, loadPromiseResolve_, element, inflight,
                         loadPromise, completed, laidOut, viewVars >>

\* Mutant: a finished build ignores an earlier measure.
builtState_unmeasured == NOT_LAID_OUT

builtState == IF hasBeenMeasured THEN READY_FOR_LAYOUT ELSE NOT_LAID_OUT

\* element.build() resolved: the first handler of build()'s then().
BuildResolved ==
  /\ elementBuilds > 0
  /\ elementBuilds' = elementBuilds - 1
  /\ isBuilding_' = FALSE
  /\ state_' = builtState
  /\ element' = [element EXCEPT !.isBuilt = TRUE]
  /\ last' = Last("buildResolved", RetResolved, FALSE)
  /\ UNCHANGED << layoutCount_, lastLayoutError_, isFixed_, layoutBox_,
                  initialLayoutBox_, layoutPromise_, loadedOnce_,
                  loadPromiseResolve_, inflight, loadPromise, completed, laidOut, viewVars >>

\* throw reason
buildRejection(reason) == RetRejected(reason)

\* element.build() rejected: the second handler of build()'s then().
BuildRejected(reason) ==
  /\ elementBuilds > 0
  /\ elementBuilds' = elementBuilds - 1
  /\ isBuilding_' = FALSE
  /\ last' = Last("buildRejected", buildRejection(reason), FALSE)
  /\ UNCHANGED << state_, layoutCount_, lastLayoutError_, isFixed_, layoutBox_,
                  initialLayoutBox_, layoutPromise_, loadedOnce_,
                  loadPromiseResolve_, element, inflight, loadPromise,
                  completed, laidOut, viewVars >>

\* The custom element is upgraded by the runtime at some moment.
Upgrade ==
  /\ ~element.isUpgraded
  /\ element' = [element EXCEPT !.isUpgraded = TRUE]
  /\ last' = Last("upgrade", RetNone, FALSE)
  /\ UNCHANGED << resourceVars, elementBuilds, inflight, loadPromise,
                  completed, laidOut, viewVars >>

\* -------------------------------------------------------------- measure
\* isPlaceholder: the element has the placeholder attribute (isPlaceholder_);
\* parentUnstubbed: its parent is an AMP element that has no resource yet.
measureDeferred(isPlaceholder, parentUnstubbed) == isPlaceholder /\ parentUnstubbed

\* fixedAncestor: the walk up the offsetParent chain meets a fixed element.
measureIsFixed(box, fixedAncestor) == isDisplayedWith(box) /\ fixedAncestor

\* Variant: "left" counts as a change of the box.
boxChanged_withLeft(oldBox, box) == oldBox # box

\* "left" does not affect readiness for the layout.
boxChanged(oldBox, box) ==
  \/ oldBox.top # box.top
  \/ oldBox.width # box.width
  \/ oldBox.height # box.height

\* Mutant: measure() asks for a relayout whether or not the element needs one.
measureMakesReady_always(oldBox, box) ==
  /\ state_ = NOT_LAID_OUT \/ boxChanged(oldBox, box)
  /\ element.isUpgraded
  /\ state_ # NOT_BUILT

measureMakesReady(oldBox, box) ==
  /\ state_ = NOT_LAID_OUT \/ boxChanged(oldBox, box)
  /\ element.isUpgraded
  /\ state_ # NOT_BUILT
  /\ state_ = NOT_LAID_OUT \/ element.isRelayoutNeeded

Measure(raw, fixedAncestor, deferred) ==
  IF deferred
    THEN /\ last' = Last("measure", RetNone, FALSE)
         /\ UNCHANGED << resourceVars, element, elementBuilds, inflight,
                         loadPromise, completed, laidOut, viewVars >>
    ELSE LET fixed == measureIsFixed(raw, fixedAncestor)
             box == IF fixed THEN moveLayoutRect(raw, -viewport.left, -viewport.top)
                             ELSE raw
         IN /\ layoutBox_' = box
            /\ isFixed_' = fixed
            /\ state_' = IF measureMakesReady(layoutBox_, box)
                           THEN READY_FOR_LAYOUT ELSE state_
            /\ initialLayoutBox_' = IF hasBeenMeasured THEN initialLayoutBox_ ELSE box
            /\ last' = Last("measure", RetNone, FALSE)
            /\ UNCHANGED << isBuilding_, layoutCount_, lastLayoutError_,
                            layoutPromise_, loadedOnce_, loadPromiseResolve_,
                            element, elementBuilds, inflight, loadPromise,
                            completed, laidOut, viewVars >>

getLayoutBox ==
  IF ~isFixed_ THEN layoutBox_
               ELSE moveLayoutRect(layoutBox_, viewport.left, viewport.top)

\* ------------------------------------------------------ layout scheduling
LayoutScheduled ==
  /\ state_' = LAYOUT_SCHEDULED
  /\ last' = Last("layoutScheduled", RetNone, FALSE)
  /\ UNCHANGED << isBuilding_, layoutCount_, lastLayoutError_, isFixed_,
                  layoutBox_, initialLayoutBox_, layoutPromise_, loadedOnce_,
                  loadPromiseResolve_, element, elementBuilds, inflight,
                  loadPromise, completed, laidOut, viewVars >>

\* Variant: layoutCanceled() forgets that the resource was measured.
canceledState_unmeasured == NOT_LAID_OUT
canceledState == IF hasBeenMeasured THEN READY_FOR_LAYOUT ELSE NOT_LAID_OUT

LayoutCanceled ==
  /\ state_' = canceledState
  /\ last' = Last("layoutCanceled", RetNone, FALSE)
  /\ UNCHANGED << isBuilding_, layoutCount_, lastLayoutError_, isFixed_,
                  layoutBox_, initialLayoutBox_, layoutPromise_, loadedOnce_,
                  loadPromiseResolve_, element, elementBuilds, inflight,
                  loadPromise, completed, laidOut, viewVars >>

\* ---------------------------------------------------------- startLayout
\* The id of the promise a new layoutCallback() returns.
newPromise == CHOOSE p \in 1..MaxInFlight : \A l \in inflight : l.id # p

startLayoutReusesPromise == layoutPromise_ # 0

\* Variant: startLayout() asserts only that the resource is built.
startLayoutAsserts_builtOnly == state_ # NOT_BUILT

\* dev().assert(state_ != NOT_BUILT) and dev().assert(isDisplayed()).
startLayoutAsserts == state_ # NOT_BUILT /\ isDisplayed

\* Mutant: startLayout() lays out again whenever it is asked to.
relayoutUnwanted_never == FALSE

\* Unwanted re-layouts are ignored.
relayoutUnwanted == layoutCount_ > 0 /\ ~element.isRelayoutNeeded

\* throws: layoutCallback() throws reason instead of returning a promise.
StartLayout(throws, reason) ==
  LET unchanged == UNCHANGED << resourceVars, element, elementBuilds, inflight,
                                loadPromise, completed, laidOut, viewVars >>
  IN
  IF startLayoutReusesPromise
    THEN /\ last' = Last("startLayout", RetPending(layoutPromise_), FALSE)
         /\ unchanged
  ELSE IF state_ = LAYOUT_COMPLETE
    THEN /\ last' = Last("startLayout", RetResolved, FALSE)
         /\ unchanged
  ELSE IF state_ = LAYOUT_FAILED
    THEN /\ last' = Last("startLayout", RetRejected(lastLayoutError_), FALSE)
         /\ unchanged
  ELSE IF ~startLayoutAsserts
    THEN /\ last' = Last("startLayout", RetAssert, FALSE)
         /\ unchanged
  ELSE IF relayoutUnwanted
    THEN /\ state_' = LAYOUT_COMPLETE
         /\ last' = Last("startLayout", RetResolved, FALSE)
         /\ UNCHANGED << isBuilding_, layoutCount_, lastLayoutError_, isFixed_,
                         layoutBox_, initialLayoutBox_, layoutPromise_,
                         loadedOnce_, loadPromiseResolve_, element,
                         elementBuilds, inflight, loadPromise, completed, laidOut, viewVars >>
  ELSE /\ layoutCount_ < MaxLayoutCount
       /\ Cardinality(inflight) < MaxInFlight
       /\ layoutCount_' = layoutCount_ + 1
       /\ state_' = LAYOUT_SCHEDULED
       /\ IF throws
            THEN /\ last' = Last("startLayout", RetRejected(reason), TRUE)
                 /\ UNCHANGED << layoutPromise_, inflight >>
            ELSE /\ layoutPromise_' = newPromise
                 /\ inflight' = inflight \cup {[id |-> newPromise, stale |-> FALSE]}
                 /\ last' = Last("startLayout", RetPending(newPromise), TRUE)
       /\ UNCHANGED << isBuilding_, lastLayoutError_, isFixed_, layoutBox_,
                       initialLayoutBox_, loadedOnce_, loadPromiseResolve_,
                       element, elementBuilds, loadPromise, completed, laidOut, viewVars >>

\* ------------------------------------------------------- layoutComplete_
\* Mutant: layoutComplete_ keeps the resolver it has used.
usedLoadPromiseResolve_kept == loadPromiseResolve_

\* loadPromiseResolve_ after layoutComplete_ has used it.
usedLoadPromiseResolve == FALSE

\* Mutant: a failed layout goes back to the start, to be tried again.
completeState_retry(success) == IF success THEN LAYOUT_COMPLETE ELSE NOT_LAID_OUT

completeState(success) == IF success THEN LAYOUT_COMPLETE ELSE LAYOUT_FAILED

\* Mutant: layoutComplete_ does not store the reason of the failure.
storedLayoutError_kept(success, reason) == lastLayoutError_

\* this.lastLayoutError_ = opt_reason
storedLayoutError(success, reason) == IF success THEN "undefined" ELSE reason

\* The promise l of layoutCallback() settles and runs layoutComplete_.
layoutComplete_(l, success, reason) ==
  /\ loadPromise' = IF loadPromiseResolve_ THEN loadPromise + 1 ELSE loadPromise
  /\ loadPromiseResolve_' = usedLoadPromiseResolve
  /\ layoutPromise_' = 0
  /\ loadedOnce_' = TRUE
  /\ state_' = completeState(success)
  /\ lastLayoutError_' = storedLayoutError(success, reason)
  /\ inflight' = inflight \ {l}
  /\ completed' = IF success THEN "success" ELSE reason
  /\ laidOut' = IF success THEN (laidOut \/ ~l.stale) ELSE FALSE
  /\ UNCHANGED << isBuilding_, layoutCount_, isFixed_, layoutBox_,
                  initialLayoutBox_, element, elementBuilds, viewVars >>

LayoutResolved(l) ==
  /\ l \in inflight
  /\ layoutComplete_(l, TRUE, "none")
  /\ last' = Last("layoutResolved", RetResolved, FALSE)

LayoutRejected(l, reason) ==
  /\ l \in inflight
  /\ layoutComplete_(l, FALSE, reason)
  /\ last' = Last("layoutRejected", RetRejected(reason), FALSE)

\* ------------------------------------------------------------- unlayout
\* Variant: unlayout() without its early return.
unlayoutSkipped_never == FALSE
unlayoutSkipped == state_ = NOT_BUILT \/ state_ = NOT_LAID_OUT

\* needsRelayout: what element.unlayoutCallback() answers.
Unlayout(needsRelayout) ==
  IF unlayoutSkipped \/ ~needsRelayout
    THEN /\ last' = Last("unlayout", RetNone, FALSE)
         /\ UNCHANGED << resourceVars, element, elementBuilds, inflight,
                         loadPromise, completed, laidOut, viewVars >>
    ELSE /\ state_' = NOT_LAID_OUT
         /\ layoutCount_' = 0
         /\ layoutPromise_' = 0
         /\ inflight' = { [l EXCEPT !.stale = TRUE] : l \in inflight }
         /\ laidOut' = FALSE
         /\ last' = Last("unlayout", RetNone, FALSE)
         /\ UNCHANGED << isBuilding_, lastLayoutError_, isFixed_, layoutBox_,
                         initialLayoutBox_, loadedOnce_, loadPromiseResolve_,
                         element, elementBuilds, loadPromise, completed, viewVars >>

\* ------------------------------------------------------------------ Next
Next ==
  \/ \E grant \in BOOLEAN : Build(grant)
  \/ BuildResolved
  \/ \E reason \in BuildReasons : BuildRejected(reason)
  \/ Upgrade
  \/ \E raw \in MeasuredBoxes, fixedAncestor \in BOOLEAN,
        deferred \in { measureDeferred(TRUE, u) : u \in BOOLEAN } :
       Measure(raw, fixedAncestor, deferred)
  \/ LayoutScheduled
  \/ LayoutCanceled
  \/ \E throws \in BOOLEAN, reason \in ThrowReasons : StartLayout(throws, reason)
  \/ \E l \in inflight : LayoutResolved(l)
  \/ \E l \in inflight, reason \in Reasons : LayoutRejected(l, reason)
  \/ \E needsRelayout \in BOOLEAN : Unlayout(needsRelayout)

Spec == Init /\ [][Next]_vars

\* ------------------------------------------- properties of the life cycle
\* The stages NOT_BUILT -> NOT_LAID_OUT -> READY_FOR_LAYOUT -> LAYOUT_SCHEDULED
\* -> {LAYOUT_COMPLETE, LAYOUT_FAILED}.
stage(s) == IF s = LAYOUT_FAILED THEN LAYOUT_COMPLETE ELSE s

Terminal == {LAYOUT_COMPLETE, LAYOUT_FAILED}

\* The condition C1_OneLayoutInFlight puts on a step.
C1_OneLayoutInFlight_Step ==
  /\ Cardinality(inflight') <= 1
  /\ (last'.op = "startLayout" /\ inflight # {}) =>
       /\ ~last'.layoutCallback
       /\ \E l \in inflight : last'.ret = RetPending(l.id)

\* C1: at most one layoutCallback invocation of a Resource is in flight in
\* every reachable state: a startLayout() made while a layout is in flight
\* returns the promise of that layout and does not invoke layoutCallback
\* again, whatever measure, layoutCanceled and unlayout steps come in between.
C1_OneLayoutInFlight == [][C1_OneLayoutInFlight_Step]_vars

\* The condition C2_NeverRegresses puts on a step.
C2_NeverRegresses_Step ==
  last'.op \notin {"layoutCanceled", "unlayout"} =>
    stage(state_') >= stage(state_)

\* C2, as claimed: in every step other than layoutCanceled and unlayout the
\* state does not move to an earlier stage.
C2_NeverRegresses == [][C2_NeverRegresses_Step]_vars

\* The condition C2_RegressesOnlyByReset puts on a step.
C2_RegressesOnlyByReset_Step ==
  /\ last'.op \in {"build", "buildRejected", "upgrade", "startLayout",
                   "layoutResolved", "layoutRejected"} =>
       stage(state_') >= stage(state_)
  /\ last'.op = "measure" =>
       \/ stage(state_') >= stage(state_)
       \/ /\ state_' = READY_FOR_LAYOUT
          /\ element.isRelayoutNeeded
          /\ \/ layoutBox_'.top # layoutBox_.top
             \/ layoutBox_'.width # layoutBox_.width
             \/ layoutBox_'.height # layoutBox_.height

\* C2, amended: a build() call, a startLayout() call and a layout completion
\* never move the state to an earlier stage; measure() moves it back only to
\* READY_FOR_LAYOUT, and only when top, width or height changed and the
\* element needs a relayout.  (layoutScheduled, the settling of a build,
\* layoutCanceled and unlayout may move it back.)
C2_RegressesOnlyByReset == [][C2_RegressesOnlyByReset_Step]_vars

\* C2, witness: a second layout was started after a measure had moved a laid
\* out resource back to READY_FOR_LAYOUT.
C2_Witness ==
  /\ last.op = "startLayout"
  /\ last.layoutCallback
  /\ state_ = LAYOUT_SCHEDULED
  /\ layoutCount_ = 2
  /\ completed = "success"

\* The condition C3_TerminalUntilUnlayout puts on a step.
C3_TerminalUntilUnlayout_Step ==
  ( /\ state_ \in Terminal
    /\ last'.op \in {"measure", "build", "buildResolved", "buildRejected",
                     "startLayout", "layoutResolved", "layoutRejected"} )
    => state_' = state_

C3_TerminalKept_Step ==
  state_ \in Terminal =>
    /\ last'.op \in {"build", "buildRejected", "upgrade", "startLayout"} =>
         state_' = state_
    /\ last'.op \in {"layoutResolved", "layoutRejected"} =>
         state_' \in Terminal
    /\ last'.op = "measure" =>
         \/ state_' = state_
         \/ /\ state_' = READY_FOR_LAYOUT
            /\ element.isRelayoutNeeded
            /\ \/ layoutBox_'.top # layoutBox_.top
               \/ layoutBox_'.width # layoutBox_.width
               \/ layoutBox_'.height # layoutBox_.height

C4_NoSecondLayout_Step ==
  ( /\ last'.op = "startLayout"
    /\ laidOut
    /\ element.isFluid \/ (layoutBox_.height > 0 /\ layoutBox_.width > 0)
    /\ ~element.isRelayoutNeeded )
  => (last'.ret = RetResolved /\ ~last'.layoutCallback)

C5_FailedLayoutRejects_Step ==
  (last'.op = "startLayout" /\ state_ = LAYOUT_FAILED) =>
    /\ completed \in Reasons
    /\ last'.ret = RetRejected(completed)
    /\ ~last'.layoutCallback
    /\ state_' = LAYOUT_FAILED
    /\ layoutCount_' = layoutCount_

\* C5: in LAYOUT_FAILED every startLayout() rejects with the reason of that
\* failure, does not invoke layoutCallback and leaves the state LAYOUT_FAILED.
C5_FailedLayoutRejects == [][C5_FailedLayoutRejects_Step]_vars

\* C5, witness: a startLayout() after a failed layout, rejected with e2.
C5_Witness ==
  /\ last.op = "startLayout"
  /\ last.ret = RetRejected("e2")
  /\ state_ = LAYOUT_FAILED

C7_BuildDenied_Step ==
  \A grant \in BOOLEAN :
    Build(grant) =>
      /\ (isBuilding_ \/ ~element.isUpgraded \/ ~grant) =>
           /\ last'.ret = RetNull
           /\ elementBuilds' = elementBuilds
           /\ UNCHANGED resourceVars
      /\ elementBuilds' <= 1

\* C7: build() returns null, calls no element.build() and changes nothing when
\* a build is in progress, the element is not upgraded or the build permission
\* is denied; at most one element.build() is in flight.
C7_BuildDenied == [][C7_BuildDenied_Step]_vars

\* C7, witness: a build() refused because a build is in progress.
C7_Witness ==
  /\ last.op = "build"
  /\ last.ret = RetNull
  /\ isBuilding_
  /\ element.isUpgraded
  /\ elementBuilds = 1

\* The condition C8_BuildSettles puts on a step.
C8_BuildSettles_Step ==
  /\ last'.op = "buildResolved" =>
       /\ state_' = IF initialLayoutBox_ # NullBox THEN READY_FOR_LAYOUT
                                                   ELSE NOT_LAID_OUT
       /\ ~isBuilding_'
  /\ \A reason \in BuildReasons :
       BuildRejected(reason) =>
         /\ last'.ret = RetRejected(reason)
         /\ state_' = state_
         /\ ~isBuilding_'
         /\ elementBuilds' = 0

\* C8: when an admitted build settles, success sets READY_FOR_LAYOUT if the
\* resource has been measured and NOT_LAID_OUT otherwise; failure rejects with
\* the reason, leaves the state, and starts no other element.build(); in both
\* cases isBuilding is false again.
C8_BuildSettles == [][C8_BuildSettles_Step]_vars

\* C8, witness: a build that failed, for a resource measured meanwhile.
C8_Witness ==
  /\ last.op = "buildRejected"
  /\ last.ret = RetRejected("b1")
  /\ state_ = NOT_BUILT
  /\ initialLayoutBox_ # NullBox
  /\ ~isBuilding_

\* The condition C11_UnlayoutGuard puts on a step.
C11_UnlayoutGuard_Step ==
  \A needsRelayout \in BOOLEAN :
    Unlayout(needsRelayout) =>
      IF state_ \in {NOT_BUILT, NOT_LAID_OUT} \/ ~needsRelayout
        THEN /\ state_' = state_
             /\ layoutCount_' = layoutCount_
             /\ layoutPromise_' = layoutPromise_
        ELSE /\ state_' = NOT_LAID_OUT
             /\ layoutCount_' = 0
             /\ layoutPromise_' = 0

\* C11: unlayout() sets NOT_LAID_OUT and resets layoutCount_ and
\* layoutPromise_ only if unlayoutCallback() returns true; if it returns false,
\* or the resource is NOT_BUILT or NOT_LAID_OUT, the three are left as they are.
C11_UnlayoutGuard == [][C11_UnlayoutGuard_Step]_vars

\* C11, witness: an unlayout() whose unlayoutCallback() returned false left a
\* laid out resource, its counter and its state, as they were.
C11_Witness ==
  /\ last.op = "unlayout"
  /\ state_ = LAYOUT_COMPLETE
  /\ layoutCount_ = 1
  /\ laidOut

\* The condition C12_CancelKeepsLayout puts on a step.
C12_CancelKeepsLayout_Step ==
  /\ LayoutCanceled =>
       /\ state_' = IF initialLayoutBox_ # NullBox THEN READY_FOR_LAYOUT
                                                   ELSE NOT_LAID_OUT
       /\ UNCHANGED << isBuilding_, layoutCount_, lastLayoutError_, isFixed_,
                       layoutBox_, initialLayoutBox_, layoutPromise_,
                       loadedOnce_, loadPromiseResolve_, inflight >>
  /\ (last'.op = "startLayout" /\ layoutPromise_ # 0) =>
       /\ last'.ret = RetPending(layoutPromise_)
       /\ ~last'.layoutCallback
       /\ layoutPromise_' = layoutPromise_
       /\ inflight' = inflight
  /\ last'.op = "layoutResolved" => state_' = LAYOUT_COMPLETE
  /\ last'.op = "layoutRejected" => state_' = LAYOUT_FAILED

\* C12: layoutCanceled() changes only the state (READY_FOR_LAYOUT if the
\* resource has been measured, else NOT_LAID_OUT) and leaves the layout in
\* flight alone: a startLayout() made while layoutPromise_ is set returns that
\* promise without another layoutCallback, and the completion of a layout sets
\* LAYOUT_COMPLETE or LAYOUT_FAILED whatever the state was.
C12_CancelKeepsLayout == [][C12_CancelKeepsLayout_Step]_vars

\* C12, witness: a startLayout() answered with the promise in flight, after a
\* layoutCanceled() had put the resource back to READY_FOR_LAYOUT.
C12_Witness ==
  /\ last.op = "startLayout"
  /\ last.ret = RetPending(layoutPromise_)
  /\ ~last.layoutCallback
  /\ layoutPromise_ # 0
  /\ state_ = READY_FOR_LAYOUT
  /\ ~element.isRelayoutNeeded
  /\ element.isBuilt

\* Top, width or height of the measured box differs from the previous box.
DimensionsOrTopDiffer(oldBox, box) ==
  oldBox.top # box.top \/ oldBox.width # box.width \/ oldBox.height # box.height

\* The condition C27 puts on a step, as stated.
C27_MeasureOnlyOnBoxChange_Step ==
  last'.op = "measure" =>
    /\ state_' # state_ =>
         /\ state_' = READY_FOR_LAYOUT
         /\ DimensionsOrTopDiffer(layoutBox_, layoutBox_')
         /\ element.isUpgraded
         /\ state_ = NOT_LAID_OUT \/ element.isRelayoutNeeded
    /\ (layoutBox_.left # layoutBox_'.left
          /\ ~DimensionsOrTopDiffer(layoutBox_, layoutBox_')) => state_' = state_
    /\ state_ = NOT_BUILT => state_' = state_

\* C27 as stated: measure() changes the state (to READY_FOR_LAYOUT) only when
\* top, width or height of the measured box differs from the previous box, the
\* element is upgraded, and the state was NOT_LAID_OUT or the element needs a
\* relayout; a measure in which only left changed, and any measure of a
\* NOT_BUILT resource, leaves the state unchanged.
C27_MeasureOnlyOnBoxChange == [][C27_MeasureOnlyOnBoxChange_Step]_vars

\* The condition the amended C27 puts on a step.
C27_MeasureReadiness_Step ==
  last'.op = "measure" =>
    /\ state_' # state_ =>
         /\ state_' = READY_FOR_LAYOUT
         /\ state_ = NOT_LAID_OUT \/ DimensionsOrTopDiffer(layoutBox_, layoutBox_')
         /\ element.isUpgraded
         /\ state_ = NOT_LAID_OUT \/ element.isRelayoutNeeded
    /\ (state_ # NOT_LAID_OUT
          /\ ~DimensionsOrTopDiffer(layoutBox_, layoutBox_')) => state_' = state_
    /\ state_ = NOT_BUILT => state_' = state_

\* C27, amended: measure() changes the state (to READY_FOR_LAYOUT) only when
\* the state was NOT_LAID_OUT or top, width or height of the measured box
\* differs from the previous box, the element is upgraded, and the state was
\* NOT_LAID_OUT or the element needs a relayout; a measure of a resource that
\* is not NOT_LAID_OUT in which only left changed, and any measure of a
\* NOT_BUILT resource, leaves the state unchanged.
C27_MeasureReadiness == [][C27_MeasureReadiness_Step]_vars

\* A resource that was laid out and reverted by unlayout() has been measured
\* and is ready for layout again.
C27_Witness ==
  /\ last.op = "measure"
  /\ state_ = READY_FOR_LAYOUT
  /\ loadedOnce_
  /\ layoutCount_ = 0

\* The condition C28 puts on a step, as stated.
C28_AssertsWhenUnbuiltOrHidden_Step ==
  (last'.op = "startLayout" /\ (state_ = NOT_BUILT \/ ~isDisplayed)) =>
    /\ last'.ret = RetAssert
    /\ ~last'.layoutCallback
    /\ layoutCount_' = layoutCount_
    /\ state_' = state_

\* C28 as stated: startLayout() on a Resource that is NOT_BUILT, or that is not
\* displayed, fails with an assertion error without invoking layoutCallback,
\* without incrementing the layout counter and without changing the state.
C28_AssertsWhenUnbuiltOrHidden == [][C28_AssertsWhenUnbuiltOrHidden_Step]_vars

\* The condition the amended C28 puts on a step.
C28_NoLayoutWhenUnbuiltOrHidden_Step ==
  (last'.op = "startLayout" /\ (state_ = NOT_BUILT \/ ~isDisplayed)) =>
    /\ ~last'.layoutCallback
    /\ layoutCount_' = layoutCount_
    /\ state_' = state_
    /\ last'.ret =
         IF layoutPromise_ # 0 THEN RetPending(layoutPromise_)
         ELSE IF state_ = LAYOUT_COMPLETE THEN RetResolved
         ELSE IF state_ = LAYOUT_FAILED THEN RetRejected(lastLayoutError_)
         ELSE RetAssert

\* C28, amended: startLayout() on a Resource that is NOT_BUILT, or that is not
\* displayed, never invokes layoutCallback, increments the layout counter or
\* changes the state; it fails with an assertion error unless a layout is in
\* flight (it returns that promise) or the state is LAYOUT_COMPLETE (it
\* resolves) or LAYOUT_FAILED (it rejects with the stored error).
C28_NoLayoutWhenUnbuiltOrHidden == [][C28_NoLayoutWhenUnbuiltOrHidden_Step]_vars

\* startLayout() has failed its assertion on a built resource that is ready
\* for layout and not displayed.
C28_Witness ==
  /\ last.op = "startLayout"
  /\ last.ret = RetAssert
  /\ state_ = READY_FOR_LAYOUT
  /\ ~isDisplayed

\* C29: a Resource is in LAYOUT_COMPLETE only if a layoutCallback invocation
\* started after its most recent state reset (construction, or an unlayout
\* that reverted it to NOT_LAID_OUT) has completed successfully, also when
\* layoutCallback throws synchronously and when unlayout() runs while a layout
\* is in flight.
C29_CompleteOnlyAfterSuccess == state_ = LAYOUT_COMPLETE => laidOut

\* ------------------------------------------------ withinViewportMultiplier
\* A multiplier is a boolean or a number; the numbers are counted in quarters
\* (quarters = 4 stands for 1, 2 for 0.5), which keeps the division exact.
BooleanMultiplier(b) == [isBoolean |-> TRUE, flag |-> b, quarters |-> 0]
NumericMultiplier(q) == [isBoolean |-> FALSE, flag |-> FALSE, quarters |-> q]

Multipliers ==
  { BooleanMultiplier(b) : b \in BOOLEAN } \cup
  { NumericMultiplier(q) : q \in {-4, 0, 2, 4, 8} }

\* Math.max(multiplier, 0)
maxZero(q) == IF q > 0 THEN q ELSE 0

\* Variant: the penalty falls on scrolling down, toward an element below.
scrollPenaltyBelow_toward == IF scrollDirection = 1 THEN 2 ELSE 1
\* scrollPenalty for an element below the viewport: 2 when scrolling up.
scrollPenaltyBelow == IF scrollDirection = -1 THEN 2 ELSE 1

\* scrollPenalty for an element above the viewport: 2 when scrolling down.
scrollPenaltyAbove == IF scrollDirection = 1 THEN 2 ELSE 1

\* Variant: the scroll penalty is not applied.
withinDistance_noPenalty(distance, height, quarters, scrollPenalty) ==
  distance * 4 < height * quarters
\* distance < viewportBox.height * multiplier / scrollPenalty, the multiplier
\* counted in quarters so that the comparison stays in the integers.
withinDistance(distance, height, quarters, scrollPenalty) ==
  distance * scrollPenalty * 4 < height * quarters

withinViewportMultiplier(multiplier) ==
  IF multiplier.isBoolean THEN multiplier.flag
  ELSE
    LET viewportBox == viewport
        layoutBox == getLayoutBox
        quarters == maxZero(multiplier.quarters)
    IN IF \/ rectRight(viewportBox) < layoutBox.left
          \/ viewportBox.left > rectRight(layoutBox)
         THEN FALSE
       ELSE IF rectBottom(viewportBox) < layoutBox.top
         THEN withinDistance(layoutBox.top - rectBottom(viewportBox),
                             viewportBox.height, quarters, scrollPenaltyBelow)
       ELSE IF viewportBox.top > rectBottom(layoutBox)
         THEN withinDistance(viewportBox.top - rectBottom(layoutBox),
                             viewportBox.height, quarters, scrollPenaltyAbove)
       ELSE TRUE

\* The scheduler asks whether the resource may render outside the viewport.
WithinViewportMultiplier(multiplier) ==
  /\ within' = [asked |-> TRUE, multiplier |-> multiplier,
                result |-> withinViewportMultiplier(multiplier)]
  /\ UNCHANGED << resourceVars, element, elementBuilds, inflight, loadPromise,
                  completed, laidOut, last, viewport, scrollDirection,
                  otherVars >>

\* A measured resource in a page scrolled to some place: the geometry the
\* question is asked about.
ViewBoxes ==
  { layoutRectLtwh(l, t, 100, 100) :
      l \in {-200, 0, 600, 700},
      t \in {-1100, -600, -500, -100, 0, 1000, 1400, 1500, 2000} }

Viewports == { layoutRectLtwh(0, t, 600, 1000) : t \in {0, 1000} }

InitView ==
  /\ element = [isFluid |-> FALSE, isRelayoutNeeded |-> FALSE,
                isUpgraded |-> TRUE, isBuilt |-> TRUE]
  /\ state_ = READY_FOR_LAYOUT
  /\ isBuilding_ = FALSE
  /\ layoutCount_ = 0
  /\ lastLayoutError_ = "null"
  /\ isFixed_ \in BOOLEAN
  /\ layoutBox_ \in ViewBoxes
  /\ initialLayoutBox_ = layoutBox_
  /\ layoutPromise_ = 0
  /\ loadedOnce_ = FALSE
  /\ loadPromiseResolve_ = TRUE
  /\ elementBuilds = 0
  /\ inflight = {}
  /\ loadPromise = 0
  /\ completed = "none"
  /\ laidOut = FALSE
  /\ last = Last("measure", RetNone, FALSE)
  /\ viewport \in Viewports
  /\ scrollDirection \in {-1, 0, 1}
  /\ within = NotAsked
  /\ OthersNew

NextView == \E multiplier \in Multipliers : WithinViewportMultiplier(multiplier)

SpecView == InitView /\ [][NextView]_vars

\* ---------------------------------------------------------------------------
\* Claims about withinViewportMultiplier, checked under SpecView.

\* The box and the viewport share no point of the x-axis.
NoHorizontalOverlap ==
  \/ getLayoutBox.left > viewport.left + viewport.width
  \/ getLayoutBox.left + getLayoutBox.width < viewport.left

\* The box lies wholly below, or wholly above, the viewport.
BoxBelow == getLayoutBox.top > viewport.top + viewport.height
BoxAbove == getLayoutBox.top + getLayoutBox.height < viewport.top

VerticalDistance ==
  IF BoxBelow THEN getLayoutBox.top - (viewport.top + viewport.height)
  ELSE viewport.top - (getLayoutBox.top + getLayoutBox.height)

ScrollingAway ==
  \/ BoxBelow /\ scrollDirection = -1
  \/ BoxAbove /\ scrollDirection = 1

\* C9: a boolean multiplier is returned unchanged; a numeric one gives false
\* when the box shares no point of the x-axis with the viewport, true when box
\* and viewport share a point of the y-axis as well, and otherwise true exactly
\* when distance < viewportHeight * max(multiplier, 0) / scrollPenalty, the
\* penalty being 2 when scrolling away from the element and 1 otherwise.
C9_WithinViewport ==
  within.asked =>
    IF within.multiplier.isBoolean THEN within.result = within.multiplier.flag
    ELSE IF NoHorizontalOverlap THEN within.result = FALSE
    ELSE IF ~BoxBelow /\ ~BoxAbove THEN within.result = TRUE
    ELSE LET m == IF within.multiplier.quarters > 0
                    THEN within.multiplier.quarters ELSE 0
             penalty == IF ScrollingAway THEN 2 ELSE 1
         IN within.result = (VerticalDistance * penalty * 4 < viewport.height * m)

\* C9, witness: an element half a viewport above, multiplier 1, scrolling away
\* from it: rejected by the penalty.
C9_Witness ==
  /\ within.asked
  /\ ~within.multiplier.isBoolean
  /\ within.multiplier.quarters = 4
  /\ ~NoHorizontalOverlap
  /\ BoxAbove
  /\ VerticalDistance = 500
  /\ scrollDirection = 1
  /\ within.result = FALSE

\* Viewport of height 1000, multiplier 1, the box d px below the viewport and
\* overlapping it horizontally.
BelowBy(d) ==
  /\ within.asked
  /\ ~within.multiplier.isBoolean
  /\ within.multiplier.quarters = 4
  /\ viewport.height = 1000
  /\ ~NoHorizontalOverlap
  /\ BoxBelow
  /\ VerticalDistance = d

\* C10 as stated: 400px below, the element is admitted when scrolling toward
\* it and rejected when scrolling away from it.
C10_RejectsAwayAt400 ==
  BelowBy(400) =>
    /\ scrollDirection = 1 => within.result = TRUE
    /\ scrollDirection = -1 => within.result = FALSE

\* C10: 400px below, the element is admitted whatever the scroll direction
\* (400 < 500); scrolling away rejects it from 500px on, where scrolling
\* toward it still admits it.
C10_AdmitsAt400 ==
  /\ BelowBy(400) => within.result = TRUE
  /\ BelowBy(500) => within.result = (scrollDirection # -1)

\* C10, witness: 400px below, scrolling away, admitted.
C10_Witness ==
  /\ BelowBy(400)
  /\ scrollDirection = -1
  /\ within.result = TRUE

\* ---------------------------------------------------------- LazyObservable
\* The handlers observed; observing the same function twice is allowed.
Handlers == {"h1", "h2", "h3"}

\* Observable.add(handler)
observableAdd(hs, h) == Append(hs, h)

\* Observable.remove(handler): the first occurrence of the handler goes.
observableRemove(hs, h) ==
  IF \E i \in 1..Len(hs) : hs[i] = h
    THEN LET i == CHOOSE k \in 1..Len(hs) :
                    hs[k] = h /\ \A j \in 1..(k - 1) : hs[j] # h
         IN SubSeq(hs, 1, i - 1) \o SubSeq(hs, i + 1, Len(hs))
    ELSE hs

\* Variant: maybeUninstall_ does not look at the handler count.
maybeUninstallSkipped_never(hs) == FALSE
\* maybeUninstall_ returns early while handlers remain.
maybeUninstallSkipped(hs) == Len(hs) > 0

\* Variant: maybeUninstall_ keeps the installer that has run.
resetInstallListenerOnce_kept == installListenerOnce_
\* installListenerOnce_ = createListenerInstaller_(): an installer that has
\* not run.
resetInstallListenerOnce == FALSE

\* observe(handler): adds the handler, runs installListenerOnce_ and returns
\* the handle that removes the handler.
Observe(h) ==
  /\ Len(handlers_) < MaxHandlers
  /\ handlers_' = observableAdd(handlers_, h)
  /\ IF installListenerOnce_
       THEN UNCHANGED << installListenerOnce_, uninstallListener_, installerCalls >>
       ELSE /\ installerCalls < MaxInstalls
            /\ installerCalls' = installerCalls + 1
            /\ uninstallListener_' = installerCalls + 1
            /\ installListenerOnce_' = TRUE
  /\ handles' = handles \cup {h}
  /\ lazyLast' = [op |-> "observe", threw |-> FALSE]
  /\ UNCHANGED << uninstallerCalls, resourceAndViewVars, sessionManagers,
                  sessionLast, entry, entryLast, moreVars >>

\* The handle observe(h) returned is called: unlisten(), maybeUninstall_().
\* asserts: dev().assert throws in this build.
Unsubscribe(h, asserts) ==
  LET hs == observableRemove(handlers_, h)
  IN /\ h \in handles
     /\ handlers_' = hs
     /\ IF maybeUninstallSkipped(hs)
          THEN /\ lazyLast' = [op |-> "unsubscribe", threw |-> FALSE]
               /\ UNCHANGED << installListenerOnce_, uninstallListener_,
                               uninstallerCalls >>
        ELSE IF uninstallListener_ = 0 /\ asserts
          THEN /\ lazyLast' = [op |-> "unsubscribe", threw |-> TRUE]
               /\ UNCHANGED << installListenerOnce_, uninstallListener_,
                               uninstallerCalls >>
        ELSE /\ installListenerOnce_' = resetInstallListenerOnce
             /\ uninstallListener_' = 0
             /\ IF uninstallListener_ = 0
                  THEN /\ lazyLast' = [op |-> "unsubscribe", threw |-> TRUE]
                       /\ UNCHANGED uninstallerCalls
                  ELSE /\ lazyLast' = [op |-> "unsubscribe", threw |-> FALSE]
                       /\ uninstallerCalls' =
                            [uninstallerCalls EXCEPT ![uninstallListener_] = @ + 1]
     /\ UNCHANGED << handles, installerCalls, resourceAndViewVars,
                     sessionManagers, sessionLast, entry, entryLast, moreVars >>

InitLazy ==
  /\ Init
  /\ element = [isFluid |-> FALSE, isRelayoutNeeded |-> FALSE,
                isUpgraded |-> TRUE, isBuilt |-> TRUE]

NextLazy ==
  \/ \E h \in Handlers : Observe(h)
  \/ \E h \in Handlers, asserts \in BOOLEAN : Unsubscribe(h, asserts)

SpecLazy == InitLazy /\ [][NextLazy]_vars

\* The condition C18_InstallsOncePerCycle puts on a step.
C18_InstallsOncePerCycle_Step ==
  installerCalls' =
    IF lazyLast'.op = "observe" /\ Len(handlers_') > Len(handlers_)
         /\ Len(handlers_) = 0
      THEN installerCalls + 1
      ELSE installerCalls

\* C18: the installer is invoked exactly once by an observe() made while no
\* handler is held (the first one, and the first one after all handlers were
\* removed) and by no other call: not by an observe() made while handlers are
\* held, and not by an unsubscribe handle.
C18_InstallsOncePerCycle == [][C18_InstallsOncePerCycle_Step]_vars

\* C18, witness: the listener was installed a second time after a drain, and
\* another handler was observed without a third installation.
C18_Witness ==
  /\ lazyLast.op = "observe"
  /\ installerCalls = 2
  /\ Len(handlers_) = 2
  /\ uninstallerCalls[1] = 1

\* The uninstaller of installation i has been invoked n times.
Undone(i, n) == uninstallerCalls[i] = n

\* The condition C19_InstalledIffObserved puts on a state.
C19_InstalledIffObserved_State ==
  /\ (uninstallListener_ # 0) = (Len(handlers_) > 0)
  /\ \A i \in 1..MaxInstalls :
       IF i > installerCalls THEN Undone(i, 0)
       ELSE IF i = installerCalls /\ Len(handlers_) > 0
         THEN Undone(i, 0) /\ uninstallListener_ = i
       ELSE Undone(i, 1)

\* The condition C19_InstalledIffObserved puts on a step.
C19_InstalledIffObserved_Step ==
  uninstallerCalls' # uninstallerCalls =>
    /\ Len(handlers_) > 0
    /\ Len(handlers_') = 0
    /\ lazyLast'.op = "unsubscribe"

\* C19: after any sequence of observe() calls and calls of the handles they
\* returned, the listener is installed (the latest installation is not undone)
\* exactly when a handler is held; the uninstaller of every earlier
\* installation was invoked exactly once, and an uninstaller is invoked only by
\* the handle call that brings the handler count to zero.
C19_InstalledIffObserved ==
  [] C19_InstalledIffObserved_State /\ [][C19_InstalledIffObserved_Step]_vars

\* C19, witness: a handle called a second time, after the drain and a fresh
\* installation, left the new installation alone.
C19_Witness ==
  /\ lazyLast.op = "unsubscribe"
  /\ installerCalls = 2
  /\ uninstallerCalls[1] = 1
  /\ uninstallerCalls[2] = 0
  /\ Len(handlers_) = 1

\* ------------------------------------------------------ VideoSessionManager
\* onSessionEnd(listener)
onSessionEnd(m) == [m EXCEPT !.listeners = @ + 1]

\* beginSession()
beginSession(m) ==
  [m EXCEPT !.isSessionActive_ = TRUE,
            !.begun = IF @ < MaxBegins THEN @ + 1 ELSE @]

\* Variant: endSession() fires whether or not a session is active.
endSessionFires_always(m) == TRUE
\* endSession() fires endSessionObservable_ only if a session is active.
endSessionFires(m) == m.isSessionActive_

\* endSession(), after the callbacks.
endSession(m) == [m EXCEPT !.isSessionActive_ = FALSE, !.begun = 0]

\* Observable.fire(): every one of the n handlers is invoked once.
observableFire(n) == [i \in 1..MaxListeners |-> IF i <= n THEN 1 ELSE 0]

\* How often endSession() invokes each callback of m.
endSessionInvokes(m) ==
  IF endSessionFires(m) THEN observableFire(m.listeners) ELSE NoInvocation

OnSessionEnd(w) ==
  /\ sessionManagers[w].listeners < MaxListeners
  /\ sessionManagers' = [sessionManagers EXCEPT ![w] = onSessionEnd(@)]
  /\ sessionLast' = [which |-> w, op |-> "onSessionEnd",
                     begun |-> sessionManagers[w].begun, invoked |-> NoInvocation]
  /\ UNCHANGED << resourceAndViewVars, lazyVars, entry, entryLast, moreVars >>

BeginSession(w) ==
  /\ sessionManagers' = [sessionManagers EXCEPT ![w] = beginSession(@)]
  /\ sessionLast' = [which |-> w, op |-> "beginSession",
                     begun |-> sessionManagers[w].begun, invoked |-> NoInvocation]
  /\ UNCHANGED << resourceAndViewVars, lazyVars, entry, entryLast, moreVars >>

EndSession(w) ==
  /\ sessionManagers' = [sessionManagers EXCEPT ![w] = endSession(@)]
  /\ sessionLast' = [which |-> w, op |-> "endSession",
                     begun |-> sessionManagers[w].begun,
                     invoked |-> endSessionInvokes(sessionManagers[w])]
  /\ UNCHANGED << resourceAndViewVars, lazyVars, entry, entryLast, moreVars >>

NextSession ==
  \/ \E w \in SessionManagerIds : OnSessionEnd(w)
  \/ \E w \in SessionManagerIds : BeginSession(w)
  \/ \E w \in SessionManagerIds : EndSession(w)

SpecSession == InitLazy /\ [][NextSession]_vars

\* The condition C17_EndSessionOnce puts on a step.
C17_EndSessionOnce_Step ==
  \A w \in SessionManagerIds :
    /\ EndSession(w) =>
         /\ \A i \in 1..MaxListeners :
              sessionLast'.invoked[i] =
                IF sessionManagers[w].isSessionActive_
                     /\ i <= sessionManagers[w].listeners
                  THEN 1 ELSE 0
         /\ ~sessionManagers'[w].isSessionActive_
    /\ (BeginSession(w) /\ sessionManagers[w].isSessionActive_) =>
         /\ sessionManagers'[w].isSessionActive_
         /\ sessionManagers'[w].listeners = sessionManagers[w].listeners
         /\ sessionLast'.invoked = NoInvocation

\* C17: endSession() invokes every registered onSessionEnd callback exactly
\* once if a session is active, however many beginSession() calls were made
\* since it became active, and none if no session is active; beginSession()
\* on an active session leaves it active and invokes nothing.
C17_EndSessionOnce == [][C17_EndSessionOnce_Step]_vars

\* C17, witness: an endSession() after two beginSession() calls invoked each
\* of two callbacks once.
C17_Witness ==
  /\ sessionLast.op = "endSession"
  /\ sessionLast.begun = 2
  /\ sessionLast.invoked = [i \in 1..MaxListeners |-> 1]

\* ------------------------------------------------------------- VideoEntry
\* PlayingStates of video-interface.js.
PAUSED == "paused"
PLAYING_AUTO == "playing_auto"
PLAYING_MANUAL == "playing_manual"

\* VISIBILITY_PERCENT (V1), and VISIBILITY_RATIO (V2) in percent.
VISIBILITY_PERCENT == 75
VISIBILITY_RATIO == 75

\* What getIntersectionChangeEntry().intersectionRatio can be: a number, given
\* in percent, or NaN or Infinity.
FiniteRatio(p) == [kind |-> "finite", percent |-> p]
Ratios ==
  { FiniteRatio(p) : p \in {0, 74, 75, 100} } \cup
  { [kind |-> k, percent |-> 0] : k \in {"NaN", "Infinity"} }

isFiniteNumber(ratio) == ratio.kind = "finite"

\* ratio >= percent, as JavaScript compares: false for NaN, true for Infinity.
atLeast(ratio, percent) ==
  IF ratio.kind = "NaN" THEN FALSE
  ELSE IF ratio.kind = "Infinity" THEN TRUE
  ELSE ratio.percent >= percent

\* V1 updateVisibility, measure: a ratio that is not finite counts as 0.
measuredVisibleV1(ratio) ==
  LET visiblePercent == IF ~isFiniteNumber(ratio) THEN FiniteRatio(0) ELSE ratio
  IN atLeast(visiblePercent, VISIBILITY_PERCENT)

\* V2 updateVisibility_, measure: the ratio is kept if it is NOT finite, and
\* replaced by 0 if it is.
measuredVisibleV2(ratio) ==
  LET kept == IF ~isFiniteNumber(ratio) THEN ratio ELSE FiniteRatio(0)
  IN atLeast(kept, VISIBILITY_RATIO)

measuredVisible(impl, ratio) ==
  IF impl = "V1" THEN measuredVisibleV1(ratio) ELSE measuredVisibleV2(ratio)

\* V1 getPlayingState()
getPlayingStateV1(e) ==
  IF ~e.isPlaying_ THEN PAUSED
  ELSE IF e.isPlaying_ /\ e.playCalledByAutoplay_
            /\ ~e.userInteractedWithAutoPlay_
    THEN PLAYING_AUTO
  ELSE PLAYING_MANUAL

\* V2 getPlayingState(): the PLAYING_AUTO branch is commented out.
getPlayingStateV2(e) == IF ~e.isPlaying_ THEN PAUSED ELSE PLAYING_MANUAL

getPlayingState(e) ==
  IF e.impl = "V1" THEN getPlayingStateV1(e) ELSE getPlayingStateV2(e)

\* A step starts from the entry and the session managers as they are.
World ==
  [ e |-> entry, s |-> sessionManagers, pauseHandled |-> "none", ended |-> {},
    calls |-> {} ]

sessionBegin(w, id) == [w EXCEPT !.s[id] = beginSession(@)]

sessionEnd(w, id) ==
  [w EXCEPT !.s[id] = endSession(@),
            !.ended = IF endSessionInvokes(w.s[id]) # NoInvocation
                        THEN @ \cup {id} ELSE @]

\* V1 videoPlayed_(); V2: the PLAYING listener of videoBuilt_.
videoPlayed_(w) ==
  IF w.e.impl = "V1"
    THEN LET w1 == [w EXCEPT !.e.isPlaying_ = TRUE]
             w2 == sessionBegin(w1, "actionSessionManager_")
         IN IF w2.e.isVisible_
              THEN sessionBegin(w2, "visibilitySessionManager_")
              ELSE w2
    ELSE [w EXCEPT !.e.isPlaying_ = TRUE]

\* V1 videoPaused_(); V2: the PAUSE listener of videoBuilt_.  by: who caused
\* the PAUSE event.
videoPaused_(w, by) ==
  LET w1 == [w EXCEPT !.e.isPlaying_ = FALSE, !.pauseHandled = by]
  IN IF w.e.impl = "V1"
       THEN IF ~w1.e.pauseCalledByAutoplay_
              THEN sessionEnd(w1, "actionSessionManager_")
              ELSE [w1 EXCEPT !.e.pauseCalledByAutoplay_ = FALSE]
       ELSE w1

\* The listeners of the element run for an event.
dispatch(w, ev) ==
  IF ev.type = "playing" THEN videoPlayed_(w) ELSE videoPaused_(w, ev.by)

\* The player dispatches an event: inside the call that caused it (sync), or
\* later.
emit(w, ev, sync) ==
  IF sync THEN dispatch(w, ev)
  ELSE [w EXCEPT !.e.events = Append(@, ev)]

\* The manager calls play(true) or pause() for autoplay: the call is noted.
managerCalls(w, by, method) ==
  IF by = "autoplay" THEN [w EXCEPT !.calls = @ \cup {method}] ELSE w

\* video.play(): works says whether the player starts.
videoPlay(w, by, sync, works) ==
  LET w0 == managerCalls(w, by, "play")
  IN IF w0.e.playerPlaying \/ ~works THEN w0
     ELSE emit([w0 EXCEPT !.e.playerPlaying = TRUE],
               [type |-> "playing", by |-> by], sync)

\* video.pause()
videoPause(w, by, sync) ==
  LET w0 == managerCalls(w, by, "pause")
  IN IF ~w0.e.playerPlaying THEN w0
     ELSE emit([w0 EXCEPT !.e.playerPlaying = FALSE],
               [type |-> "pause", by |-> by], sync)

\* V1 autoplayLoadedVideoVisibilityChanged_, not visible: video.pause(), then
\* pauseCalledByAutoplay_ = true.
autoplayPauses(w, sync) ==
  [videoPause(w, "autoplay", sync) EXCEPT !.e.pauseCalledByAutoplay_ = TRUE]

\* V1 autoplayLoadedVideoVisibilityChanged_()
autoplayLoadedVideoVisibilityChanged_(w, sync, works) ==
  IF ~w.e.allowAutoplay_ THEN w
  ELSE IF w.e.isVisible_
    THEN LET w1 == sessionBegin(w, "visibilitySessionManager_")
             w2 == videoPlay(w1, "autoplay", sync, works)
         IN [w2 EXCEPT !.e.playCalledByAutoplay_ = TRUE]
  ELSE LET w1 == IF w.e.isPlaying_
                   THEN sessionEnd(w, "visibilitySessionManager_") ELSE w
       IN autoplayPauses(w1, sync)

\* V1 nonAutoplayLoadedVideoVisibilityChanged_()
nonAutoplayLoadedVideoVisibilityChanged_(w) ==
  IF w.e.isVisible_ THEN sessionBegin(w, "visibilitySessionManager_")
  ELSE IF w.e.isPlaying_ THEN sessionEnd(w, "visibilitySessionManager_")
  ELSE w

\* Variant: the detection of autoplay always answers that it is supported.
autoplaySupported_always(e) == TRUE

\* What the promise of supportsAutoplay_() (V1) and of isSupported_() (V2)
\* resolves with.
autoplaySupported(e) == e.supportsAutoplay

\* Variant: the callback takes the autoplay branch whatever the attribute,
\* the detection and the user's interaction.
supportsAutoplayThenV1_always(w, sync, works) ==
  autoplayLoadedVideoVisibilityChanged_(w, sync, works)

\* V1 loadedVideoVisibilityChanged_: the callback of supportsAutoplay_().
supportsAutoplayThenV1(w, sync, works) ==
  LET canAutoplay == w.e.hasAutoplay /\ ~w.e.userInteractedWithAutoPlay_
  IN IF canAutoplay /\ autoplaySupported(w.e)
       THEN autoplayLoadedVideoVisibilityChanged_(w, sync, works)
       ELSE nonAutoplayLoadedVideoVisibilityChanged_(w)

\* V2 videoVisibilityChanged_: the callback of Promise.all(dependenciesMet).
\* The visibility observable fires to Autoplay.onVisibilityChanged_, which
\* waits for isSupported_().
dependenciesMetThenV2(w) ==
  IF w.e.isVisible_
    THEN [sessionBegin(w, "visibilitySessionManager_")
            EXCEPT !.e.autoplayTasks = Append(@, TRUE)]
  ELSE IF w.e.isPlaying_
    THEN [sessionEnd(w, "visibilitySessionManager_")
            EXCEPT !.e.autoplayTasks = Append(@, FALSE)]
  ELSE w

\* V2 Autoplay.onVisibilityChanged_: the callback of isSupported_().
isSupportedThenV2(w, isVisible, sync, works) ==
  IF ~autoplaySupported(w.e) THEN w
  ELSE IF isVisible
    THEN [videoPlay(w, "autoplay", sync, works)
            EXCEPT !.e.playCalledByAutoplay_ = TRUE]
  ELSE videoPause(w, "autoplay", sync)

\* Variant: the handler of a loaded video never starts its work.
loadedVideoVisibilityChanged_ignored(w, viewerVisible) == w

\* V1 onLoadedVisibilityChanged: loadedVideoVisibilityChanged_ asks
\* supportsAutoplay_() if the viewer is visible.  V2: onLoadedVisibilityChanged_
\* is videoVisibilityChanged_ while the visibility observable is installed,
\* which the Autoplay behavior does, and a no-op otherwise.
loadedVideoVisibilityChanged_(w, viewerVisible) ==
  IF ~viewerVisible \/ (w.e.impl = "V2" /\ ~w.e.hasAutoplay) THEN w
  ELSE [w EXCEPT !.e.visibilityChanged = @ + 1]

\* updateVisibility(opt_forceVisible): a vsync task that remembers isVisible_.
updateVisibility(w, force) ==
  [w EXCEPT !.e.vsync = Append(@, [wasVisible |-> w.e.isVisible_, force |-> force])]

\* The step ends: the entry and the session managers are stored.
Stored(w, op, ret) ==
  /\ entry' = w.e
  /\ sessionManagers' = w.s
  /\ entryLast' = EntryLast(op, ret, w.pauseHandled, w.ended, w.calls)
  /\ UNCHANGED << resourceAndViewVars, lazyVars, sessionLast, moreVars >>

Registered == entry.impl # "none"

hasRoom ==
  /\ Len(entry.events) < MaxEvents
  /\ Len(entry.vsync) < MaxTasks
  /\ entry.visibilityChanged < MaxTasks
  /\ Len(entry.autoplayTasks) < MaxTasks

\* ctor.observables of Autoplay and of VideoAnalytics.
observables(b) ==
  IF b = "AUTOPLAY" THEN {"VISIBILITY"}
  ELSE {"PLAYBACK", "ACTION_SESSION", "VISIBILITY_SESSION"}

\* installBehavior_, the switch: the field of the entry injected for a
\* declared observable.
injectedFor(observable) ==
  CASE observable = "RESIZE" -> "resize_"
    [] observable = "SECONDS_PLAYING" -> "secondsPlaying_"
    [] observable = "PLAYBACK" -> "playback_"
    [] observable = "VISIBILITY" -> "visibility_"
    [] observable = "ACTION_SESSION" -> "actionSession_"
    [] observable = "VISIBILITY_SESSION" -> "visibilitySession_"

\* V2 installBehavior_(bitwiseId): the behavior is constructed and installed,
\* and the closure that undoes this installation is stored in its slot.
installBehavior_(w, b) ==
  LET c == w.e.closures[b] + 1
  IN [w EXCEPT !.e.closures[b] = c,
               !.e.installations[b] = @ \cup {c},
               !.e.installed = @ \cup {b},
               !.e.injected[b] = { injectedFor(o) : o \in observables(b) },
               !.e.uninstallers_[b] = c]

\* VideoBehaviorId: AUTOPLAY is 2^0, ANALYTICS is 2^1.
bitwiseId(b) == IF b = "AUTOPLAY" THEN 1 ELSE 2

\* isBehaviorInstalled(bitwiseString, bitwiseId): (bitwiseString & bitwiseId) > 0
\* for a bitwiseId that is a power of two.
isBehaviorInstalled(bitwiseString, id) == (bitwiseString \div id) % 2 = 1

\* The behaviors whose bit is set in a number.
behaviorsOf(n) == { b \in VideoBehaviorId : isBehaviorInstalled(n, bitwiseId(b)) }

\* Variant: only the last binary digit is written.
toStringRadix2_lastDigit(n) == << n % 2 >>

\* mask.toString(2): the binary digits of a number.
RECURSIVE toStringRadix2(_)
toStringRadix2(n) ==
  IF n < 2 THEN << n >> ELSE toStringRadix2(n \div 2) \o << n % 2 >>

\* parseInt(string): behaviorsFromAttrs_ gives the radix 2 to getAttribute,
\* which ignores it, and parseInt reads the digits as a decimal number.
parseInt(digits) ==
  LET RECURSIVE upTo(_)
      upTo(i) == IF i = 0 THEN 0 ELSE 10 * upTo(i - 1) + digits[i]
  IN upTo(Len(digits))

\* Variant: the i-amphtml-behaviors attribute is not read.
behaviorsFromAttrs_unmasked(e, initial) ==
  initial \cup (IF e.hasAutoplay THEN {"AUTOPLAY"} ELSE {})

\* V2 behaviorsFromAttrs_(initial): without an i-amphtml-behaviors attribute
\* on the element the mask is ALL_VIDEO_BEHAVIOR_IDS.
behaviorsFromAttrs_(e, initial) ==
  LET autoplay == IF e.hasAutoplay THEN {"AUTOPLAY"} ELSE {}
      mask == IF e.behaviorsAttr.set
                THEN behaviorsOf(parseInt(e.behaviorsAttr.value))
                ELSE VideoBehaviorId
  IN (initial \cup autoplay) \cap mask

\* V2 installBehaviors_(initial): in the order of VideoBehaviorId.
installBehaviors_(w, initial) ==
  LET installed == behaviorsFromAttrs_(w.e, initial)
      w1 == IF "AUTOPLAY" \in installed THEN installBehavior_(w, "AUTOPLAY") ELSE w
  IN IF "ANALYTICS" \in installed THEN installBehavior_(w1, "ANALYTICS") ELSE w1

DEFAULT_BEHAVIORS == {"ANALYTICS"}

\* array.forEach(call), with const {call} = Function.prototype: forEach calls
\* its callback with this undefined, and Function.prototype.call throws a
\* TypeError when its this is not callable.  It throws at the first member, so
\* it returns only for an array without members.
forEachCallThrows(members) == members # {}

\* What a closure stored by installBehavior_ goes through: the unlistener of
\* the behavior, and the one of its visibility dependency or NOOP.
closureUnlisteners == {"install", "visibilityDependency"}

\* A stored closure is called: unlisteners.forEach(call).
callUninstaller(w, b, c) ==
  [w EXCEPT !.e.installations[b] =
              IF forEachCallThrows(closureUnlisteners) THEN @ ELSE @ \ {c},
            !.e.called[b][c] = IF @ < MaxCalls THEN @ + 1 ELSE @]

\* The V2 entry keeps the video in its field video; it has no field video_.
hasField_video_ == FALSE

\* V2 uninstallBehavior_(bitwiseId).  Its first statement reads
\* this.video_.element, which throws a TypeError when this.video_ is undefined.
uninstallBehavior_(w, b) ==
  IF ~hasField_video_ THEN w
  ELSE LET uninstaller == w.e.uninstallers_[b]
       IN IF uninstaller = NoUninstaller THEN w
          ELSE callUninstaller([w EXCEPT !.e.uninstallers_[b] = NoUninstaller],
                               b, uninstaller)

uninstallBehaviorThrows == ~hasField_video_

\* V2 uninstall(), the chunk: this.unlisteners_.forEach(call), then every
\* stored uninstaller is called; the slots are left as they are.  The chunk
\* ends at the first statement that throws.
uninstallThrows(e) ==
  \/ forEachCallThrows(e.unlisteners_)
  \/ ( /\ forEachCallThrows(closureUnlisteners)
       /\ \E b \in VideoBehaviorId : e.uninstallers_[b] # NoUninstaller )

uninstallAll(w) ==
  LET undo(x, b) == IF x.e.uninstallers_[b] = NoUninstaller THEN x
                    ELSE callUninstaller(x, b, x.e.uninstallers_[b])
      first == IF w.e.uninstallers_["AUTOPLAY"] # NoUninstaller
                 THEN "AUTOPLAY" ELSE "ANALYTICS"
  IN IF forEachCallThrows(w.e.unlisteners_) THEN w
     ELSE LET w1 == [w EXCEPT !.e.unlisteners_ = {}]
          IN IF forEachCallThrows(closureUnlisteners)
               THEN undo(w1, first)
               ELSE undo(undo(w1, "AUTOPLAY"), "ANALYTICS")

\* V2 remaskBehaviors(mask): installed_ is never assigned before, and the first
\* turn of the loop reads wasInstalled, which is not declared: a ReferenceError.
remaskBehaviorsReturns(e, mask) == e.installed_.defined /\ mask = e.installed_.mask

remaskBehaviors(w, mask) ==
  IF remaskBehaviorsReturns(w.e, mask) THEN w
  ELSE [w EXCEPT !.e.installed_ =
                   [defined |-> TRUE, mask |-> w.e.installed_.mask \cap mask]]

\* V2 videoBuilt_: the listeners of the entry on the element, pushed to
\* unlisteners_.
videoBuiltListeners == {"LOAD", "PAUSE", "PLAYING"}

\* manager.register(video): new VideoEntry.  The V1 entry gives each session
\* manager its analytics callback; the V2 entry installs its behaviors
\* (videoBuilt_).
registered(impl, hasAutoplay, supportsAutoplay) ==
  LET e == [NoVideoEntry EXCEPT !.impl = impl, !.hasAutoplay = hasAutoplay,
                                !.supportsAutoplay = supportsAutoplay,
                                !.behaviorsAttr = entry.behaviorsAttr]
      sm == IF impl = "V1"
              THEN [w \in SessionManagerIds |-> onSessionEnd(sessionManagers[w])]
              ELSE sessionManagers
      w1 == [World EXCEPT !.e = e, !.s = sm]
  IN IF impl = "V2"
       THEN installBehaviors_([w1 EXCEPT !.e.unlisteners_ = videoBuiltListeners],
                              DEFAULT_BEHAVIORS)
       ELSE w1

\* A video that is built already and not interactive is registered.
Register(impl, hasAutoplay, supportsAutoplay) ==
  /\ ~Registered
  /\ Stored(registered(impl, hasAutoplay, supportsAutoplay), "register", "none")

\* The LOAD event: videoLoaded().
VideoLoaded(viewerVisible) ==
  /\ Registered /\ ~entry.loaded_ /\ hasRoom
  /\ LET w1 == [World EXCEPT !.e.loaded_ = TRUE]
         w2 == updateVisibility(w1, FALSE)
         w3 == IF w2.e.isVisible_
                 THEN loadedVideoVisibilityChanged_(w2, viewerVisible) ELSE w2
     IN Stored(w3, "videoLoaded", viewerVisible)

\* A scroll, or a VISIBILITY event (force: its data say visible): the entry
\* updates its visibility.  V2 listens only while the visibility observable is
\* installed.
UpdateVisibility(force) ==
  /\ Registered /\ hasRoom
  /\ entry.impl = "V2" => entry.hasAutoplay
  /\ Stored(updateVisibility(World, force), "updateVisibility", "none")

\* vsync runs the oldest task: measure, then mutate.
VsyncRun(ratio, viewerVisible) ==
  /\ Registered /\ entry.vsync # << >> /\ entry.visibilityChanged < MaxTasks
  /\ LET task == Head(entry.vsync)
         visible == IF task.force THEN TRUE ELSE measuredVisible(entry.impl, ratio)
         w1 == [World EXCEPT !.e.vsync = Tail(@), !.e.isVisible_ = visible]
         w2 == IF w1.e.isVisible_ # task.wasVisible /\ w1.e.loaded_
                 THEN loadedVideoVisibilityChanged_(w1, viewerVisible) ELSE w1
     IN Stored(w2, IF task.force THEN "measureForced" ELSE "measure", ratio)

\* The promise that loadedVideoVisibilityChanged_ (V1) or
\* videoVisibilityChanged_ (V2) waits for resolves.
VisibilityChangedThen(sync, works) ==
  /\ Registered /\ entry.visibilityChanged > 0
  /\ Len(entry.events) < MaxEvents /\ Len(entry.autoplayTasks) < MaxTasks
  /\ LET w1 == [World EXCEPT !.e.visibilityChanged = @ - 1]
         w2 == IF entry.impl = "V1" THEN supportsAutoplayThenV1(w1, sync, works)
                                    ELSE dependenciesMetThenV2(w1)
     IN Stored(w2, "visibilityChangedThen", "none")

\* V2: the promise Autoplay.onVisibilityChanged_ waits for resolves.
AutoplayThen(sync, works) ==
  /\ Registered /\ entry.autoplayTasks # << >>
  /\ Len(entry.events) < MaxEvents
  /\ LET w1 == [World EXCEPT !.e.autoplayTasks = Tail(@)]
     IN Stored(isSupportedThenV2(w1, Head(entry.autoplayTasks), sync, works),
               "autoplayThen", "none")

\* The user starts or pauses the player, with its own controls or through the
\* play and pause actions (video.play(false), video.pause()).
UserPlays ==
  /\ Registered /\ Len(entry.events) < MaxEvents
  /\ ~entry.playerPlaying
  /\ Stored(videoPlay(World, "user", FALSE, TRUE), "userPlays", "none")

UserPauses ==
  /\ Registered /\ Len(entry.events) < MaxEvents
  /\ entry.playerPlaying
  /\ Stored(videoPause(World, "user", FALSE), "userPauses", "none")

\* The user clicks the mask of an autoplay video: onInteraction.
UserInteracts ==
  /\ Registered
  /\ entry.hasAutoplay /\ entry.supportsAutoplay
  /\ ~entry.userInteractedWithAutoPlay_
  /\ Stored([World EXCEPT !.e.userInteractedWithAutoPlay_ = TRUE,
                          !.e.controls = "shown"],
            "userInteracts", "none")

\* An event dispatched earlier reaches the listeners.
DeliverEvent ==
  /\ Registered /\ entry.events # << >>
  /\ LET w1 == [World EXCEPT !.e.events = Tail(@)]
     IN Stored(dispatch(w1, Head(entry.events)), "event", "none")

\* manager.getPlayingState(video)
GetPlayingState ==
  /\ Registered
  /\ Stored(World, "getPlayingState", getPlayingState(entry))

NextEntry ==
  \/ \E impl \in {"V1", "V2"}, hasAutoplay \in BOOLEAN, supportsAutoplay \in BOOLEAN :
       Register(impl, hasAutoplay, supportsAutoplay)
  \/ \E viewerVisible \in BOOLEAN : VideoLoaded(viewerVisible)
  \/ \E force \in BOOLEAN : UpdateVisibility(force)
  \/ \E ratio \in Ratios, viewerVisible \in BOOLEAN : VsyncRun(ratio, viewerVisible)
  \/ \E sync \in BOOLEAN, works \in BOOLEAN : VisibilityChangedThen(sync, works)
  \/ \E sync \in BOOLEAN, works \in BOOLEAN : AutoplayThen(sync, works)
  \/ UserPlays
  \/ UserPauses
  \/ UserInteracts
  \/ DeliverEvent
  \/ GetPlayingState

SpecEntry == InitLazy /\ [][NextEntry]_vars

\* ---------------------------------------------------- behaviors of a V2 entry
RegisteredV2 == entry.impl = "V2"

\* installBehavior_(bitwiseId), as remaskBehaviors means to call it.
InstallBehavior(b) ==
  /\ RegisteredV2 /\ entry.closures[b] < MaxClosures
  /\ Stored(installBehavior_(World, b), "installBehavior_", b)

\* uninstallBehavior_(bitwiseId), as remaskBehaviors means to call it.
UninstallBehavior(b) ==
  /\ RegisteredV2
  /\ Stored(uninstallBehavior_(World, b),
            IF uninstallBehaviorThrows THEN "uninstallBehavior_ throws"
                                       ELSE "uninstallBehavior_", b)

\* manager.unregister(video): entry.uninstall(), when its chunk runs.
Uninstall ==
  /\ RegisteredV2
  /\ \A b \in VideoBehaviorId :
       entry.uninstallers_[b] # NoUninstaller =>
         entry.called[b][entry.uninstallers_[b]] < MaxCalls
  /\ Stored(uninstallAll(World),
            IF uninstallThrows(entry) THEN "uninstall throws" ELSE "uninstall",
            "none")

\* manager.remaskBehaviors(element, mask) for a registered video.
RemaskBehaviors(mask) ==
  /\ RegisteredV2
  /\ Stored(remaskBehaviors(World, mask),
            IF remaskBehaviorsReturns(entry, mask) THEN "remaskBehaviors"
                                                   ELSE "remaskBehaviors throws",
            mask)

NextBehaviors ==
  \/ \E hasAutoplay \in BOOLEAN, supportsAutoplay \in BOOLEAN :
       Register("V2", hasAutoplay, supportsAutoplay)
  \/ \E b \in VideoBehaviorId : InstallBehavior(b)
  \/ \E b \in VideoBehaviorId : UninstallBehavior(b)
  \/ Uninstall
  \/ \E mask \in SUBSET VideoBehaviorId : RemaskBehaviors(mask)

SpecBehaviors == InitLazy /\ [][NextBehaviors]_vars

\* C13: getPlayingState() of a video entry returns PAUSED whenever isPlaying is
\* false, PLAYING_AUTO when isPlaying is true, playback was started by autoplay
\* and the user has not interacted, and PLAYING_MANUAL in every other case, for
\* the entry of every video manager that can be installed.
C13_PlayingState ==
  entryLast.op = "getPlayingState" =>
    entryLast.ret =
      IF ~entry.isPlaying_ THEN PAUSED
      ELSE IF entry.playCalledByAutoplay_ /\ ~entry.userInteractedWithAutoPlay_
        THEN PLAYING_AUTO
      ELSE PLAYING_MANUAL

\* C14: after the measure phase of a visibility update, isVisible is true if
\* the update was forced visible, and otherwise is true exactly when the
\* intersectionRatio is a finite number of at least 0.75.
C14_MeasuredVisibility ==
  /\ entryLast.op = "measureForced" => entry.isVisible_
  /\ entryLast.op = "measure" =>
       (entry.isVisible_ <=>
          (entryLast.ret.kind = "finite" /\ entryLast.ret.percent >= 75))

\* C15: when autoplay pauses a video that was scrolled out of view, the PAUSE
\* event of that pause does not end the action session, here for a PAUSE
\* event delivered inside the pause() call.
C15_AutoplayPauseKeepsActionSession ==
  (entryLast.op = "visibilityChangedThen" /\ entryLast.pauseHandled = "autoplay")
    => "actionSessionManager_" \notin entryLast.ended

\* C16: the visibility session of a video entry is active only while the video
\* is both playing and visible.
C16_VisibilitySessionWhilePlayingAndVisible ==
  (Registered /\ sessionManagers["visibilitySessionManager_"].isSessionActive_)
    => (entry.isPlaying_ /\ entry.isVisible_)

\* The condition C20 puts on a step.
C20_UninstallCallsAndClears_Step ==
  \A b \in VideoBehaviorId :
    ( /\ entryLast'.op \in {"uninstallBehavior_", "uninstallBehavior_ throws"}
      /\ entryLast'.ret = b
      /\ entry.uninstallers_[b] # NoUninstaller )
    => LET c == entry.uninstallers_[b]
       IN /\ entry'.uninstallers_[b] = NoUninstaller
          /\ entry'.called[b][c] = entry.called[b][c] + 1
          /\ c \notin entry'.installations[b]

\* C20: uninstalling a behavior of a video entry invokes the stored uninstall
\* closure of that behavior exactly once and clears its slot.
C20_UninstallCallsAndClears == [][C20_UninstallCallsAndClears_Step]_vars

\* The condition C21 puts on a step.
C21_RemaskInstallsDifference_Step ==
  entryLast'.op \in {"remaskBehaviors", "remaskBehaviors throws"} =>
    \A b \in VideoBehaviorId :
      LET wasInstalled == entry.uninstallers_[b] # NoUninstaller
          isInstalled == b \in entryLast'.ret
          c == entry.uninstallers_[b]
      IN /\ (isInstalled /\ ~wasInstalled) =>
              /\ entry'.closures[b] = entry.closures[b] + 1
              /\ entry'.uninstallers_[b] = entry'.closures[b]
              /\ entry'.installations[b] = entry.installations[b] \cup {entry'.closures[b]}
         /\ (~isInstalled /\ wasInstalled) =>
              /\ entry'.uninstallers_[b] = NoUninstaller
              /\ entry'.called[b][c] = entry.called[b][c] + 1
              /\ entry'.installations[b] = entry.installations[b] \ {c}
         /\ (isInstalled <=> wasInstalled) =>
              /\ entry'.uninstallers_[b] = entry.uninstallers_[b]
              /\ entry'.closures[b] = entry.closures[b]
              /\ entry'.called[b] = entry.called[b]
              /\ entry'.installations[b] = entry.installations[b]

\* C21: remaskBehaviors(mask) on a registered video entry uninstalls exactly
\* the behaviors installed before and absent from the new mask, installs
\* exactly the behaviors present in the new mask and not installed before, and
\* leaves the others untouched.
C21_RemaskInstallsDifference == [][C21_RemaskInstallsDifference_Step]_vars

\* C38: after unregister(video) of the V2 manager and the run of the entry's
\* deferred uninstall, the entry holds no listener on the element and no
\* subscription on an observable: every installation of a behavior is undone.
C38_UninstallReleasesAll ==
  entryLast.op \in {"uninstall", "uninstall throws"}
    => /\ entry.unlisteners_ = {}
       /\ \A b \in VideoBehaviorId : entry.installations[b] = {}

\* ------------------------------------------------- autoplay of a built video
\* A video that is not built yet is registered.
RegisterUnbuilt(impl, hasAutoplay, supportsAutoplay, isInteractive) ==
  /\ ~Registered
  /\ Stored([registered(impl, hasAutoplay, supportsAutoplay)
               EXCEPT !.e.isInteractive = isInteractive, !.e.built = "whenBuilt"],
            "register", "none")

\* V1 autoplayVideoBuilt_, V2 Autoplay.onVideoBuilt_, up to the promise: the
\* controls of an interactive video are hidden until autoplay is detected.
autoplayVideoBuilt_(w) ==
  [w EXCEPT !.e.controls = IF w.e.isInteractive THEN "hidden" ELSE @,
            !.e.built = "detecting"]

\* V1 autoplayVideoBuilt_, V2 Autoplay.onVideoBuilt_, the callback of the
\* promise: not supported, the controls of an interactive video are shown;
\* supported, an interactive video gets its animation and mask
\* (autoplayInteractiveVideoBuilt_, onInteractiveVideoBuilt_: hideControls).
controlsAfterDetection(e) ==
  IF ~autoplaySupported(e) /\ e.isInteractive THEN "shown"
  ELSE IF e.isInteractive THEN "hidden"
  ELSE e.controls

\* element.whenBuilt() resolves.  V1 onBuilt_: updateVisibility(), and
\* autoplayVideoBuilt_() for a video with the autoplay attribute.  V2: the
\* callbacks of Autoplay.install and of installVisibilityObserver_, both there
\* only while the Autoplay behavior is installed.
VideoBuilt ==
  /\ Registered /\ entry.built = "whenBuilt" /\ hasRoom
  /\ LET w1 == IF entry.impl = "V1" \/ entry.hasAutoplay
                 THEN updateVisibility(World, FALSE) ELSE World
         w2 == IF entry.hasAutoplay THEN autoplayVideoBuilt_(w1)
                                    ELSE [w1 EXCEPT !.e.built = "done"]
     IN Stored(w2, "videoBuilt", "none")

\* The promise autoplayVideoBuilt_ (V1) or onVideoBuilt_ (V2) waits for
\* resolves.
AutoplayBuiltThen ==
  /\ Registered /\ entry.built = "detecting"
  /\ Stored([World EXCEPT !.e.controls = controlsAfterDetection(entry),
                          !.e.built = "done"],
            "autoplayBuiltThen", "none")

\* The ratios the viewport answers while a video scrolls in and out of view.
InAndOutOfView == { FiniteRatio(0), FiniteRatio(100), [kind |-> "Infinity", percent |-> 0] }

NextAutoplay ==
  \/ \E impl \in {"V1", "V2"}, supportsAutoplay \in BOOLEAN, isInteractive \in BOOLEAN :
       RegisterUnbuilt(impl, TRUE, supportsAutoplay, isInteractive)
  \/ VideoBuilt
  \/ AutoplayBuiltThen
  \/ \E viewerVisible \in BOOLEAN : VideoLoaded(viewerVisible)
  \/ \E force \in BOOLEAN : UpdateVisibility(force)
  \/ \E ratio \in InAndOutOfView : VsyncRun(ratio, TRUE)
  \/ \E sync \in BOOLEAN, works \in BOOLEAN : VisibilityChangedThen(sync, works)
  \/ \E sync \in BOOLEAN, works \in BOOLEAN : AutoplayThen(sync, works)
  \/ UserPlays
  \/ UserInteracts
  \/ DeliverEvent

SpecAutoplay == InitLazy /\ [][NextAutoplay]_vars

UpdateVisibilityQueued(force) ==
  /\ Registered /\ Len(entry.vsync) < MaxVsync
  /\ entry.impl = "V2" => entry.hasAutoplay
  /\ Stored(updateVisibility(World, force), "updateVisibility", "none")

NextVisibility ==
  \/ \E impl \in {"V1", "V2"}, hasAutoplay \in BOOLEAN, supportsAutoplay \in BOOLEAN :
       Register(impl, hasAutoplay, supportsAutoplay)
  \/ \E viewerVisible \in BOOLEAN : VideoLoaded(viewerVisible)
  \/ \E force \in BOOLEAN : UpdateVisibilityQueued(force)
  \/ \E ratio \in Ratios, viewerVisible \in BOOLEAN : VsyncRun(ratio, viewerVisible)
  \/ \E sync \in BOOLEAN, works \in BOOLEAN : VisibilityChangedThen(sync, works)
  \/ \E sync \in BOOLEAN, works \in BOOLEAN : AutoplayThen(sync, works)
  \/ DeliverEvent

SpecVisibility == InitLazy /\ [][NextVisibility]_vars

C30_HandlerOncePerChange_Step ==
  (/\ entryLast'.op \in {"measure", "measureForced"}
   /\ entry'.visibilityChanged = entry.visibilityChanged + 1)
    => entry'.isVisible_ # entry.isVisible_

\* C30: the visibility-change handler of a video entry runs only in a step
\* of vsync that changes isVisible, whatever the number of updateVisibility()
\* calls queued before vsync runs their tasks: never twice for one change.
C30_HandlerOncePerChange == [][C30_HandlerOncePerChange_Step]_vars

\* ---------------------------------------------- visibility before the load
\* A step of vsync for an entry that has not loaded handles nothing.
UnloadedMeasureHandlesNothing_Step ==
  (entryLast'.op \in {"measure", "measureForced"} /\ ~entry.loaded_ /\ entry' # entry)
    => /\ entry'.visibilityChanged = entry.visibilityChanged
       /\ entry'.playerPlaying = entry.playerPlaying
       /\ entry'.events = entry.events
       /\ sessionManagers' = sessionManagers

\* The step in which the video loads.
LoadStep == entryLast'.op = "videoLoaded" /\ ~entry.loaded_ /\ entry'.loaded_

C31_LoadedVisibleAlwaysHandled_Step ==
  /\ UnloadedMeasureHandlesNothing_Step
  /\ (LoadStep /\ entry.isVisible_)
       => entry'.visibilityChanged = entry.visibilityChanged + 1

C31_LoadedVisibleHandled_Step ==
  /\ UnloadedMeasureHandlesNothing_Step
  /\ (LoadStep /\ entry.isVisible_ /\ entryLast'.ret = TRUE
        /\ (entry.impl = "V1" \/ entry.hasAutoplay))
       => entry'.visibilityChanged = entry.visibilityChanged + 1
  /\ (LoadStep /\ entry.isVisible_ /\ entryLast'.ret = FALSE)
       => entry'.visibilityChanged = entry.visibilityChanged

DelegateAutoplay(sync) ==
  /\ Registered /\ entry.impl = "V1" /\ entry.allowAutoplay_
  /\ Len(entry.events) < MaxEvents
  /\ LET w1 == [World EXCEPT !.e.allowAutoplay_ = FALSE]
         w2 == IF w1.e.isPlaying_ THEN videoPause(w1, "delegate", sync) ELSE w1
     IN Stored(w2, "delegateAutoplay", "none")

NextDelegate ==
  \/ NextEntry
  \/ \E sync \in BOOLEAN : DelegateAutoplay(sync)

SpecDelegate == InitLazy /\ [][NextDelegate]_vars

C32_AutoplayCallsOnlyWhenAllowed_Step ==
  (/\ entry.impl = "V1"
   /\ entryLast'.op = "visibilityChangedThen"
   /\ entry'.visibilityChanged = entry.visibilityChanged - 1
   /\ entryLast'.calls # {})
    => /\ entry.hasAutoplay /\ entry.supportsAutoplay
       /\ ~entry.userInteractedWithAutoPlay_
       /\ entry.allowAutoplay_
       /\ entry.loaded_

RemaskAttribute(mask) ==
  /\ ~Registered
  /\ Stored([World EXCEPT !.e.behaviorsAttr =
                            [ set |-> TRUE, value |-> toStringRadix2(mask),
                              mask |-> mask ]],
            "remaskAttribute", mask)

NextRemask ==
  \/ \E mask \in 0..MaxMask : RemaskAttribute(mask)
  \/ NextBehaviors

SpecRemask == InitLazy /\ [][NextRemask]_vars

\* The behaviors C33 and C40 expect of a new entry.
expectedBehaviors(e) ==
  ({"ANALYTICS"} \cup (IF e.hasAutoplay THEN {"AUTOPLAY"} ELSE {}))
    \cap (IF e.behaviorsAttr.set THEN behaviorsOf(e.behaviorsAttr.mask)
                                 ELSE VideoBehaviorId)

\* C33: a new V2 entry has installed exactly the behaviors whose bit is set in
\* (default behaviors | autoplay bit if the element has the attribute) & mask,
\* the mask being the one recorded for the element, or every behavior; each
\* of them was constructed once, got the observables it declares, and has its
\* uninstall closure in its own slot, and the other slots are empty.
C33_InstalledAtCreation ==
  (entryLast.op = "register" /\ entry.impl = "V2") =>
    /\ entry.installed = expectedBehaviors(entry)
    /\ \A b \in VideoBehaviorId :
         IF b \in expectedBehaviors(entry)
           THEN /\ entry.closures[b] = 1
                /\ entry.installations[b] = {1}
                /\ entry.uninstallers_[b] = 1
                /\ entry.injected[b] =
                     IF b = "AUTOPLAY" THEN {"visibility_"}
                     ELSE {"playback_", "actionSession_", "visibilitySession_"}
           ELSE /\ entry.closures[b] = 0
                /\ entry.uninstallers_[b] = NoUninstaller
                /\ entry.injected[b] = {}

\* C33, witness: an element with the autoplay attribute whose recorded mask
\* leaves only autoplay is registered.
C33_Witness ==
  /\ entryLast.op = "register" /\ entry.impl = "V2"
  /\ entry.hasAutoplay /\ entry.behaviorsAttr.set
  /\ entry.installed = {"AUTOPLAY"}

\* C40: for every mask m of 0..3 recorded by remaskBehaviors before the
\* registration, the attribute written and parsed back has the behavior bits
\* of m, and the behaviors installed at the registration are the bits of
\* (ANALYTICS | AUTOPLAY if the element has the attribute) & m.
C40_MaskSurvivesAttribute ==
  entry.behaviorsAttr.set =>
    /\ behaviorsOf(parseInt(entry.behaviorsAttr.value)) = behaviorsOf(entry.behaviorsAttr.mask)
    /\ (entryLast.op = "register" /\ entry.impl = "V2") =>
         entry.installed =
           ({"ANALYTICS"} \cup (IF entry.hasAutoplay THEN {"AUTOPLAY"} ELSE {}))
             \cap behaviorsOf(entry.behaviorsAttr.mask)

\* C40, witness: the mask 2, written as 10 and read as ten, is registered with
\* analytics only on an element with the autoplay attribute.
C40_Witness ==
  /\ entryLast.op = "register" /\ entry.impl = "V2" /\ entry.hasAutoplay
  /\ entry.behaviorsAttr.set /\ entry.behaviorsAttr.mask = 2
  /\ parseInt(entry.behaviorsAttr.value) = 10
  /\ entry.installed = {"ANALYTICS"}

\* ----------------------------------------------------------- VideoManager
PlayingStates == {PAUSED, PLAYING_AUTO, PLAYING_MANUAL}

ManagerStored(m, op, el, threw, ret, triggered) ==
  /\ manager' = m
  /\ managerLast' = ManagerLast(op, el, threw, ret, triggered)
  /\ UNCHANGED << resourceAndViewVars, lazyVars, sessionManagers, sessionLast,
                  entry, entryLast, safeHtml >>

Constructed == manager.impl # "none"

\* new VideoManager(ampdoc) arms the seconds-playing timer; new
\* VideoManagerV2(ampdoc) leaves it to installSecondsPlaying_.  Both set
\* entries_ = null.
NewManager(impl) ==
  /\ ~Constructed
  /\ ManagerStored([NoManager EXCEPT !.impl = impl,
                                     !.timers = IF impl = "V1" THEN 1 ELSE 0],
                   "new", "none", "none", "none", {})

\* V2 getEntryForElement_(element): element[ENTRY_PROP] || null.
getEntryForElement_(m, el) == IF m.props[el] = "entry" THEN "entry" ELSE "null"

registeredElements == { manager.entries_[i].element : i \in 1..Len(manager.entries_) }

\* manager.register(video).  V1: entries_ = entries_ || [], then push.  V2: the
\* entry is kept on the element, entries_ stays null, and a registered element
\* is not registered again.
ManagerRegister(el, supportsPlatform) ==
  /\ Constructed /\ Len(manager.entries_) < MaxEntries
  /\ IF ~supportsPlatform
       THEN ManagerStored(manager, "register", el, "none", "unsupported", {})
     ELSE IF manager.impl = "V2" /\ getEntryForElement_(manager, el) # "null"
       THEN ManagerStored(manager, "register", el, "none", "existing", {})
       ELSE ManagerStored(
              [manager EXCEPT !.entriesNull = IF manager.impl = "V1" THEN FALSE ELSE @,
                              !.entries_ = Append(@, [element |-> el, state |-> PAUSED]),
                              !.props[el] = IF manager.impl = "V2" THEN "entry" ELSE @],
              "register", el, "none", "created", {})

\* What unregister does with a null entry: dev().assert(null) throws where the
\* assertions of dev() are kept, and entry.uninstall() throws a TypeError
\* where they are compiled out.
NullEntryErrors == {"AssertionError", "TypeError"}

\* V2 manager.unregister(video): returns when ENTRY_PROP is not in the element;
\* else entry.uninstall() queues its chunk and the property is set to null.
ManagerUnregister(el) ==
  /\ manager.impl = "V2"
  /\ IF manager.props[el] = "absent"
       THEN ManagerStored(manager, "unregister", el, "none", "none", {})
     ELSE IF getEntryForElement_(manager, el) = "null"
       THEN \E threw \in NullEntryErrors :
              ManagerStored(manager, "unregister", el, threw, "none", {})
       ELSE ManagerStored(
              [manager EXCEPT !.entries_ = SelectSeq(@, LAMBDA x : x.element # el),
                              !.props[el] = "null"],
              "unregister", el, "none", "uninstalled", {})

\* The video of an entry starts or stops playing: what getPlayingState()
\* answers changes.
PlayingStateChanges(i, st) ==
  /\ Constructed /\ i \in 1..Len(manager.entries_)
  /\ manager.entries_[i].state # st
  /\ ManagerStored([manager EXCEPT !.entries_[i].state = st],
                   "playingState", manager.entries_[i].element, "none", "none", {})

\* V1 getEntryForElement_ and secondsPlaying_ read this.entries_.length, a
\* TypeError while entries_ is null.
readsEntriesOfNull(m) == m.entriesNull

\* V1 getAnalyticsDetails(videoElement): the entry's promise of details for a
\* registered element, else Promise.resolve().
GetAnalyticsDetails(el) ==
  /\ manager.impl = "V1"
  /\ IF readsEntriesOfNull(manager)
       THEN ManagerStored(manager, "getAnalyticsDetails", el, "TypeError", "none", {})
       ELSE ManagerStored(manager, "getAnalyticsDetails", el, "none",
                          IF el \in registeredElements THEN "details" ELSE "resolved", {})

\* V1 secondsPlaying_: the entries whose getPlayingState() is not PAUSED.
playingEntries(m) ==
  { m.entries_[i].element : i \in { j \in 1..Len(m.entries_) : m.entries_[j].state # PAUSED } }

\* V1: the seconds-playing timer fires, secondsPlaying_() runs and re-arms it
\* with its last statement.
SecondsPlaying ==
  /\ manager.impl = "V1" /\ manager.timers > 0
  /\ LET fired == [manager EXCEPT !.timers = @ - 1]
     IN IF readsEntriesOfNull(manager)
          THEN ManagerStored(fired, "secondsPlaying", "none", "TypeError", "none", {})
          ELSE ManagerStored([fired EXCEPT !.timers = @ + 1], "secondsPlaying",
                             "none", "none", "none", playingEntries(manager))

\* V2: the first handler of manager.secondsPlaying is observed, and
\* installSecondsPlaying_ runs: it reads ampdoc, a name that is not declared
\* (ReferenceError), before it could arm the timer.
ObserveSecondsPlaying ==
  /\ manager.impl = "V2"
  /\ ManagerStored(manager, "observeSecondsPlaying", "none", "ReferenceError", "none", {})

NextManager ==
  \/ \E impl \in {"V1", "V2"} : NewManager(impl)
  \/ \E el \in VideoElements, supportsPlatform \in BOOLEAN : ManagerRegister(el, supportsPlatform)
  \/ \E el \in VideoElements : ManagerUnregister(el)
  \/ \E i \in 1..MaxEntries, st \in PlayingStates : PlayingStateChanges(i, st)
  \/ \E el \in VideoElements : GetAnalyticsDetails(el)
  \/ SecondsPlaying
  \/ ObserveSecondsPlaying

SpecManager == InitLazy /\ [][NextManager]_vars

\* C23: getAnalyticsDetails(element) for an element that is not registered
\* resolves without throwing, in every state of the manager, including when no
\* video has been registered yet.
C23_UnregisteredResolves ==
  (managerLast.op = "getAnalyticsDetails" /\ managerLast.element \notin registeredElements)
    => (managerLast.threw = "none" /\ managerLast.ret = "resolved")

\* C24: on every firing of the seconds-playing timer, a video-seconds-played
\* event is triggered for exactly the registered entries whose playing state
\* is not PAUSED, and the timer is armed again after every firing; a manager
\* that installs its timer on demand has it armed once it is observed.
C24_SecondsPlayingKeepsFiring ==
  /\ managerLast.op = "secondsPlaying" =>
       /\ managerLast.threw = "none"
       /\ managerLast.triggered = playingEntries(manager)
       /\ manager.timers = 1
  /\ managerLast.op = "observeSecondsPlaying" => manager.timers = 1

\* The entries a manager holds for an element.
entriesFor(m, el) == { i \in 1..Len(m.entries_) : m.entries_[i].element = el }

C35_OneEntryPerElement_Step ==
  /\ \A el \in VideoElements : Cardinality(entriesFor(manager', el)) <= 1
  /\ (managerLast' # managerLast /\ managerLast'.op = "register"
        /\ managerLast'.ret = "unsupported")
       => manager'.entries_ = manager.entries_

\* C35: registering the same video element twice with a video manager leaves
\* exactly one entry for that element, the second register creating none; and
\* the register of a video whose supportsPlatform() is false creates no entry.
C35_OneEntryPerElement == [][C35_OneEntryPerElement_Step]_vars

\* The condition C36 puts on a step.
C36_OtherPauseEndsActionSession_Step ==
  ( /\ entry.impl = "V1"
    /\ entryLast'.pauseHandled \notin {"none", "autoplay"}
    /\ sessionManagers["actionSessionManager_"].isSessionActive_ )
  => "actionSessionManager_" \in entryLast'.ended

\* C36: the autoplay-pause flag of the V1 entry suppresses the end of the
\* action session only for the PAUSE event of the autoplay pause that set it:
\* a PAUSE event that follows a PLAYING event and was not caused by an autoplay
\* pause ends the action session, also after an autoplay pause that was issued
\* while the video was already paused.
C36_OtherPauseEndsActionSession == [][C36_OtherPauseEndsActionSession_Step]_vars

\* The condition C37 puts on a step.
C37_ManualAfterPlayAction_Step ==
  ( /\ entry.impl = "V1" /\ entryLast'.op = "event"
    /\ entry.events # << >>
    /\ Head(entry.events) = [type |-> "playing", by |-> "user"]
    /\ ~entry'.userInteractedWithAutoPlay_ )
  => getPlayingState(entry') = PLAYING_MANUAL

\* C37: getPlayingState() answers PLAYING_AUTO only while the current playback
\* was started by autoplay: once a playback is started through the play action
\* (isAutoplay false), the user not having interacted with the mask, it answers
\* PLAYING_MANUAL, also when an earlier playback was started by autoplay.
C37_ManualAfterPlayAction == [][C37_ManualAfterPlayAction_Step]_vars

\* The condition C39 puts on a step.
C39_UnregisterWithoutEntry_Step ==
  /\ ( /\ manager.impl = "V2" /\ managerLast'.op = "unregister"
       /\ getEntryForElement_(manager, managerLast'.element) = "null" )
     => (managerLast'.threw = "none" /\ manager' = manager)
  /\ ( /\ manager.impl = "V2" /\ managerLast'.op = "register"
       /\ managerLast'.ret # "unsupported"
       /\ manager.props[managerLast'.element] = "null" )
     => ( /\ managerLast'.ret = "created"
          /\ getEntryForElement_(manager', managerLast'.element) = "entry" )

\* C39: unregister(video) of the V2 manager does nothing when the element has
\* no entry, be it never registered or unregistered already; and a register of
\* an element that was registered and unregistered creates a new entry.
C39_UnregisterWithoutEntry == [][C39_UnregisterWithoutEntry_Step]_vars

\* --------------------------------------------------- best centered entries
\* The viewport and the boxes of the intersection entries, in pixels.
ViewportSize == [ width |-> 300, height |-> 400 ]
EntryTops == {0, 100, 150, 200}
IntersectionRatios == {50, 100}      \* in percent
Targets == <<"a", "b", "c">>

IntersectionEntry(target, ratio, top) ==
  [ target |-> target, intersectionRatio |-> ratio,
    boundingClientRect |-> [ top |-> top, height |-> 100 ] ]

\* What the intersection observer reports: one entry for each of the first n
\* targets.
IntersectionEntries(n) ==
  { [ i \in 1..n |-> IntersectionEntry(Targets[i], f[i][1], f[i][2]) ] :
      f \in [1..n -> IntersectionRatios \X EntryTops] }

abs(x) == IF x < 0 THEN 0 - x ELSE x

\* centerDist(viewport, rect)
centerDist(rect) ==
  LET centerY == rect.top + rect.height \div 2
      centerViewport == ViewportSize.height \div 2
  IN abs(centerY - centerViewport)

\* compareIntersectionEntries_(a, b)
compareIntersectionEntries_(a, b) ==
  IF a.intersectionRatio > b.intersectionRatio THEN -1
  ELSE IF a.intersectionRatio < b.intersectionRatio THEN 1
  ELSE LET aCenter == centerDist(a.boundingClientRect)
           bCenter == centerDist(b.boundingClientRect)
       IN IF aCenter > bCenter THEN -1
          ELSE IF aCenter < bCenter THEN 1
          ELSE IF a.boundingClientRect.top < b.boundingClientRect.top THEN -1
          ELSE IF a.boundingClientRect.top > b.boundingClientRect.top THEN 1
          ELSE 0

\* x put into a sorted sequence, after the entries that do not compare
\* greater than it.
RECURSIVE insertSorted(_, _)
insertSorted(x, sorted) ==
  IF sorted = << >> THEN << x >>
  ELSE IF compareIntersectionEntries_(x, Head(sorted)) < 0 THEN << x >> \o sorted
  ELSE << Head(sorted) >> \o insertSorted(x, Tail(sorted))

\* entries.sort((a, b) => this.compareIntersectionEntries_(a, b)), a stable
\* sort.
RECURSIVE sortEntries(_)
sortEntries(entries) ==
  IF entries = << >> THEN << >>
  ELSE insertSorted(entries[Len(entries)],
                    sortEntries(SubSeq(entries, 1, Len(entries) - 1)))

\* updatePortraitVisibility_: the targets whose class i-amphtml-fol-centered
\* is toggled on.
centeredTargets(sorted) ==
  { sorted[i].target : i \in { j \in 1..Len(sorted) :
                                 sorted[j].intersectionRatio >= 100 /\ j = 1 } }

\* The intersection observer of the Rot82xManager of a V1 manager calls back:
\* onIntersectionChange_(entries).
OnIntersectionChange(entries, landscape) ==
  /\ manager.impl = "V1"
  /\ IF landscape
       THEN ManagerStored(manager, "onIntersectionChange landscape", entries,
                          "none", entries, {})
       ELSE LET sorted == sortEntries(entries)
            IN ManagerStored(manager, "onIntersectionChange", entries,
                             "none", sorted, centeredTargets(sorted))

NextRot82x ==
  \/ NewManager("V1")
  \/ \E n \in 2..MaxIntersections :
       \E entries \in IntersectionEntries(n), landscape \in BOOLEAN :
         OnIntersectionChange(entries, landscape)

SpecRot82x == InitLazy /\ [][NextRot82x]_vars

\* a comes before b in the order of C34, or they are equal in it.
bestCenteredFirst(a, b) ==
  \/ a.intersectionRatio > b.intersectionRatio
  \/ /\ a.intersectionRatio = b.intersectionRatio
     /\ \/ centerDist(a.boundingClientRect) < centerDist(b.boundingClientRect)
        \/ /\ centerDist(a.boundingClientRect) = centerDist(b.boundingClientRect)
           /\ a.boundingClientRect.top <= b.boundingClientRect.top

\* C34: after updatePortraitVisibility_ the entries are in the order 'best
\* centered' (higher intersectionRatio first, then the vertical center nearest
\* to the center of the viewport, then the smaller top), and only the first
\* entry of that order is marked centered, and only if it is fully in view.
C34_BestCenteredFirst ==
  managerLast.op = "onIntersectionChange" =>
    LET sorted == managerLast.ret IN
    /\ \A i \in 1..(Len(sorted) - 1) : bestCenteredFirst(sorted[i], sorted[i + 1])
    /\ managerLast.triggered =
         IF sorted[1].intersectionRatio >= 100 THEN { sorted[1].target } ELSE {}

\* --------------------------------------------------------------- safe-html
\* Strings are sequences of characters.
Chars == {"a", "&", "<", ">", "\"", "'"}

RECURSIVE StringsOfLen(_)
StringsOfLen(n) ==
  IF n = 0 THEN { << >> }
  ELSE { Append(s, c) : s \in StringsOfLen(n - 1), c \in Chars }

Strings == UNION { StringsOfLen(n) : n \in 0..MaxValueLen }

TAG_BODY == "TAG_BODY"

unsafeHtmlBodyCharsMapping(c) ==
  CASE c = "&" -> << "&", "a", "m", "p", ";" >>
    [] c = "<" -> << "&", "l", "t", ";" >>
    [] c = ">" -> << "&", "g", "t", ";" >>
    [] c = "\"" -> << "&", "q", "u", "o", "t", ";" >>
    [] c = "'" -> << "&", "#", "0", "3", "9", ";" >>
    [] OTHER -> << c >>

\* unsafe.replace(/[&<>"']/g, c => unsafeHtmlBodyCharsMapping[c])
escapeHtmlSpecialChars(unsafe) ==
  LET RECURSIVE from(_)
      from(i) == IF i > Len(unsafe) THEN << >>
                 ELSE unsafeHtmlBodyCharsMapping(unsafe[i]) \o from(i + 1)
  IN from(1)

\* A string, or a function that returns str.
StringArg(str) == [ type |-> "string", str |-> str ]
FunctionArg(str) == [ type |-> "function", str |-> str ]
\* The value html gives for a template without interpolations: safe(str).
SafeValue(str) == [ type |-> "Safe", str |-> str ]

\* Safe.render(context): this.safeStr_ || this.safeRenderFn_(context), where
\* safeStr_ is the string or null and safeRenderFn_ is the argument, whatever
\* its type.  The empty string is falsy, and calling it is a TypeError.
render(arg) ==
  IF arg.type = "function" THEN [ threw |-> "none", str |-> arg.str ]
  ELSE IF arg.str # << >> THEN [ threw |-> "none", str |-> arg.str ]
  ELSE [ threw |-> "TypeError", str |-> << >> ]

\* getContext(outerContext, prefix): none of its expressions matches a prefix
\* without <, >, " and =, and the outer context is returned.
getContext(outerContext, prefix) ==
  IF \A i \in 1..Len(prefix) : prefix[i] \notin {"<", ">", "\"", "="}
    THEN outerContext ELSE "OTHER"

\* String(value), the key of value in a cache: a Safe is rendered by its
\* toString().
cacheKey(value) ==
  IF value.type = "Safe" THEN render(StringArg(value.str))
  ELSE [ threw |-> "none", str |-> value.str ]

\* maybeEscapeByContext(context, maybeUnsafe) for a Safe and for a string; the
\* cache of escapeByContext holds strings only and answers as escapeByContext.
maybeEscapeByContext(context, maybeUnsafe) ==
  IF maybeUnsafe.type = "Safe" THEN render(StringArg(maybeUnsafe.str))
  ELSE IF maybeUnsafe.str = << >> THEN [ threw |-> "none", str |-> << >> ]
  ELSE [ threw |-> "none", str |-> escapeHtmlSpecialChars(maybeUnsafe.str) ]

cached(cache, key) == CHOOSE e \in cache : e.key = key

\* maybeEscapeByContextCached(context, value): [threw, str, cache].
maybeEscapeByContextCached(cache, context, value) ==
  LET k == cacheKey(value) IN
  IF k.threw # "none" THEN [ threw |-> k.threw, str |-> << >>, cache |-> cache ]
  ELSE IF \E e \in cache : e.key = k.str
    THEN [ threw |-> "none", str |-> cached(cache, k.str).value, cache |-> cache ]
  ELSE LET r == maybeEscapeByContext(context, value) IN
       [ threw |-> r.threw, str |-> r.str,
         cache |-> IF r.threw = "none"
                     THEN cache \cup { [ key |-> k.str, value |-> r.str ] }
                     ELSE cache ]

\* The earlier maybeEscape(context, maybeUnsafe): no cache of its own.
maybeEscape(cache, context, maybeUnsafe) ==
  LET r == IF maybeUnsafe.type = "Safe" THEN render(StringArg(maybeUnsafe.str))
           ELSE [ threw |-> "none", str |-> escapeHtmlSpecialChars(maybeUnsafe.str) ]
  IN [ threw |-> r.threw, str |-> r.str, cache |-> cache ]

\* html(staticStrings, ...values).toString() with one value at least:
\* joinFragments over the static strings, in order.  The earlier version reads
\* values[0] at every position.
RECURSIVE joinFragments(_, _, _, _, _, _)
joinFragments(impl, staticStrings, values, i, cache, out) ==
  IF i > Len(staticStrings) THEN [ threw |-> "none", str |-> out, cache |-> cache ]
  ELSE IF i > Len(values)
    THEN joinFragments(impl, staticStrings, values, i + 1, cache, out \o staticStrings[i])
  ELSE LET innerContext == getContext(TAG_BODY, staticStrings[i])
           r == IF impl = "current"
                  THEN maybeEscapeByContextCached(cache, innerContext, values[i])
                  ELSE maybeEscape(cache, innerContext, values[1])
       IN IF r.threw # "none" THEN [ threw |-> r.threw, str |-> << >>, cache |-> r.cache ]
          ELSE joinFragments(impl, staticStrings, values, i + 1, r.cache,
                             out \o staticStrings[i] \o r.str)

html(impl, cache, staticStrings, values) ==
  joinFragments(impl, staticStrings, values, 1, cache, << >>)

SafeStored(s) ==
  /\ safeHtml' = s
  /\ UNCHANGED << resourceAndViewVars, lazyVars, sessionManagers, sessionLast,
                  entry, entryLast, manager, managerLast >>

\* require('./safe-html'): the module of build-system/app-index, or its
\* earlier version.
Require(impl) ==
  /\ safeHtml.impl = "none"
  /\ SafeStored([NoSafe EXCEPT !.impl = impl, !.op = "require"])

Loaded == safeHtml.impl # "none" /\ safeHtml.calls < MaxRenders

\* safe(str).toString(); the current safe keeps the Safe of a string in its
\* cache.
SafeString(str) ==
  /\ Loaded
  /\ LET r == render(StringArg(str)) IN
     SafeStored([safeHtml EXCEPT
       !.op = "safe", !.calls = @ + 1,
       !.input = [ staticStrings |-> << >>, values |-> << StringArg(str) >> ],
       !.safeCache = IF safeHtml.impl = "current" THEN @ \cup {str} ELSE @,
       !.threw = r.threw, !.output = r.str])

\* safe(f).toString() for a function f that returns str.
SafeFunction(str) ==
  /\ Loaded
  /\ LET r == render(FunctionArg(str)) IN
     SafeStored([safeHtml EXCEPT
       !.op = "safeFn", !.calls = @ + 1,
       !.input = [ staticStrings |-> << >>, values |-> << FunctionArg(str) >> ],
       !.threw = r.threw, !.output = r.str])

\* The templates a${v} and a${v}b${w}.
Templates == { << <<"a">>, << >> >>, << <<"a">>, <<"b">>, << >> >> }
Values == { StringArg(s) : s \in Strings } \cup { SafeValue(s) : s \in Strings }

\* html`...${v}...`.toString()
Html(staticStrings, values) ==
  /\ Loaded
  /\ LET r == html(safeHtml.impl, safeHtml.escapeCache, staticStrings, values) IN
     SafeStored([safeHtml EXCEPT
       !.op = "html", !.calls = @ + 1,
       !.input = [ staticStrings |-> staticStrings, values |-> values ],
       !.escapeCache = r.cache,
       !.threw = r.threw, !.output = r.str])

NextSafeHtml ==
  \/ \E impl \in {"current", "earlier"} : Require(impl)
  \/ \E str \in Strings : SafeString(str)
  \/ \E str \in Strings : SafeFunction(str)
  \/ \E staticStrings \in Templates :
       \E values \in [1..(Len(staticStrings) - 1) -> Values] : Html(staticStrings, values)

SpecSafeHtml == InitLazy /\ [][NextSafeHtml]_vars

\* C25: for every string s, safe(s).toString() returns s unchanged, and for
\* every render function f, safe(f).toString() returns the string f returns.
C25_SafeHonorsStringsAndRenderers ==
  safeHtml.op \in {"safe", "safeFn"} =>
    /\ safeHtml.threw = "none"
    /\ safeHtml.output = safeHtml.input.values[1].str

\* What C26 has at one interpolation position.
escapedOrAsRendered(value) ==
  IF value.type = "Safe" THEN value.str ELSE escapeHtmlSpecialChars(value.str)

RECURSIVE expectedHtml(_, _, _)
expectedHtml(staticStrings, values, i) ==
  IF i > Len(staticStrings) THEN << >>
  ELSE staticStrings[i]
       \o (IF i > Len(values) THEN << >> ELSE escapedOrAsRendered(values[i]))
       \o expectedHtml(staticStrings, values, i + 1)

\* C26: the output of an html template rendered in tag-body context has, at
\* every interpolation position, an interpolated string with each of
\* & < > " ' replaced by its entity, and an interpolated result of html as it
\* renders, not escaped again.
C26_HtmlEscapesEveryPosition ==
  (safeHtml.op = "html" /\ safeHtml.threw = "none") =>
     safeHtml.output =
       expectedHtml(safeHtml.input.staticStrings, safeHtml.input.values, 1)

====
